---- MODULE Spec2Model ----
(***************************************************************************)
(* A model of the instance pool and of the job / joblet / worker scheduler *)
(* of exprtk.js (src/src/expression.h, src/src/async.h, src/src/async.cc,  *)
(* src/src/semaphore.h, src/src/expression.cc).                            *)
(*                                                                         *)
(* One Expression is modelled.  Thread 0 is the control (JS) thread: it    *)
(* submits jobs (Job::run), sets maxParallel and receives the asynchronous *)
(* callbacks (CallJS); the JS code of a callback calls the Expression as   *)
(* any other JS code.  Threads 1..NumCallers are foreign threads entering  *)
(* through the C API (InstanceGuard).  The pool threads of async.cc are    *)
(* stateless between joblets, so a pool thread is identified with the      *)
(* joblet it is executing; at most NumThreads joblets execute at a time.   *)
(* A Worker object lives in one of MaxJobs slots; the slot of a deleted    *)
(* Worker is used again by a later job.                                    *)
(***************************************************************************)
EXTENDS Integers, Sequences, FiniteSets, TLC

\* Number of instances of an Expression (hardware_concurrency or
\* EXPRTKJS_THREADS), expression.cc:32
ExpressionMaxParallel == 2
\* Number of pool threads, async.cc:36
NumThreads == 2
\* Number of Worker objects (jobs handed to the scheduler) alive at a time
MaxJobs == 2
\* Number of Joblet objects (over all Worker objects) alive at a time
MaxJoblets == 2
\* Number of foreign threads calling through the C API
NumCallers == 1
\* Largest length of the array of a map call
MaxLen == 4
\* Largest number of joblets of a map call
MaxMapJoblets == 3
\* Largest number of dimensions, largest extent, largest absolute stride and
\* largest offset of a strided array, and largest length of its buffer
MaxDims == 2
MaxShape == 3
MaxStride == 2
MaxOffset == 3
MaxBuffer == 4
\* Number of Expressions of the same data type, and number of threads other
\* than the main thread that call them through the C API
NumExpressions == 2
ParserThreads == 2

\* joblets[i].instance = nullptr / err(nullptr), async.h:114-119
nullptr == 0

Instances == 1..ExpressionMaxParallel
Jobs == 1..MaxJobs
Threads == 0..NumCallers
JobletIds == Jobs \X (0..(ExpressionMaxParallel - 1))

VARIABLES
  \* Expression<T> (expression.h:160-176)
  maxParallel, maxActive, currentActive, instancesIdle, isInit, work_queue,
  predMax,        \* maxParallel as read by the predicate of waitIdleInstance
  \* async.cc
  global_work_queue,
  \* Worker<T> objects (async.h:80-109), indexed by slot
  kind,           \* "none" (no object), "async", "sync", "leaked"
  size,           \* joblets.size()
  jobletsReady, err, raw,
  \* Joblet<T> (async.h:58-77), indexed by <<slot, id>>
  instance, jpc, next,
  \* the control thread: where it is, the Worker it is handling in Job::run
  \* and the index of the loop of Worker::Queue
  mpc, mjob, mk,
  queue_i,        \* the local i of Worker::Queue: what getIdleInstance returned
  self,           \* the AsyncWorker whose callback CallJS is running, or 0
  \* Semaphore (semaphore.h)
  busy,
  \* calls of a threadsafe function not yet run on the control thread
  callGate,
  \* what the receiver of the job mjob is given: "none", "result" or "error",
  \* and the message of the error
  delivered, deliveredErr,
  \* synchronous single instance callers (InstanceGuard)
  cpc, cinstance,
  \* history
  finished,       \* number of OnFinish() invocations of the Worker
  errLog,         \* the messages caught by the Worker, in the order recorded
  placed,         \* per joblet: how it was put on the global queue, each time
  popped,         \* per joblet: number of times a pool thread popped it
  peakActive,     \* the highest value currentActive has had
  \* the pool threads and the shutdown of the process (async.cc:11-37)
  wpc,            \* per pool thread: where it is in workerThread
  global_work_mutex, \* the thread that holds the mutex, or 0
  queued,         \* global_work_queue.size()
  theEndFlag,     \* static bool theEnd
  dpc,            \* the main thread: "run", "notify_all", "join", "exited"
  joinI,          \* the index of the loop of threadsDestructor
  \* one call of GetStridedIndex followed by GetLinearOffset (ndarray.cc:105-140)
  gdims, gshape, gstride, \* the arguments dims, shape, stride
  goffset,        \* the argument offset of GetStridedIndex
  gindex,         \* index; a negative number n stands for the size_t 2^64 + n
  glinear,        \* the offset computed by GetLinearOffset
  gpc,            \* "none", "GetStridedIndex", "GetLinearOffset", "returned"
  \* one call of the C API functions map or reduce (expression.cc:394-432,
  \* 548-591)
  variableNames,  \* the names of the scalars, then those of the vectors
  nvars,          \* symbolTable.variable_count(): the number of scalars
  capi,           \* "none", "map" or "reduce"
  iterator_name, accumulator, iterator_len,
  scalars_len,    \* the number of values in _scalars; _scalars is nullptr for 0
  status,         \* "none", "exprtk_ok", "exprtk_invalid_argument", "SIGSEGV"
  written,        \* the number of elements of _result that were written
  \* one call of IncrementStridedIndex (ndarray.h:29-47) on index and
  \* data_ptr; positions are counted in bytes
  elementSize, start,
  \* one call of Expression::map (expression.cc:290-392)
  lenTotal,       \* array.ElementLength()
  joblets,        \* job.joblets
  input, output,  \* the elements of the arrays, indexed from 0
  writers,        \* history: the ids of the units that wrote each position
  in_ptr,         \* of each unit: input + in_ptr is the pointer of the loop
  unit,           \* of each unit: "new", "loop" (in job.main) or "returned"
  \* one strided array argument of a call of Expression::cwise
  \* (expression.cc:750-1023, ndarray.cc); positions are counted in elements
  \* from the start of the buffer
  dims, shape, stride, offset,
  length,         \* v8data.ElementLength()
  ndJoblets,      \* job.joblets
  ndId,           \* id: the unit that is run
  index, data_ptr, data_end, output_ptr,
  reads,          \* history: <<output position, position read from the buffer>>
  ndpc,           \* "cwise", "TypeError", "imported", "loop", "returned", "SIGSEGV"
  \* several Expressions of one data type, which share the static parser
  \* (expression.h:178-185), and the threads that compile their instances
  isInitOf,       \* per Expression and instance: ExpressionInstance::isInit
  idleOf,         \* per Expression: instancesIdle
  asyncLockOf,    \* per Expression: the holders of asyncLock
  parserMutex,    \* per Expression: the holders of parserMutex
  tpc,            \* per thread: where it is
  texpr,          \* per thread: the Expression it works on
  tinst           \* per thread: the instance it took

poolVars == <<maxParallel, maxActive, currentActive, instancesIdle, isInit,
              work_queue, predMax>>
workerVars == <<kind, size, jobletsReady, err, raw>>
jobletVars == <<instance, jpc, next>>
mainVars == <<mpc, mjob, mk, queue_i, self>>
callerVars == <<cpc, cinstance>>
histVars == <<finished, errLog, placed, popped, peakActive>>
outVars == <<callGate, delivered, deliveredErr>>
schedVars == <<poolVars, global_work_queue, workerVars, jobletVars, mainVars,
               busy, outVars, callerVars, histVars>>
mapVars == <<lenTotal, joblets, input, output, writers, in_ptr, unit>>
ndVars == <<dims, shape, stride, offset, length, ndJoblets, ndId, index,
            data_ptr, data_end, output_ptr, reads, ndpc>>
parserVars == <<isInitOf, idleOf, asyncLockOf, parserMutex, tpc, texpr, tinst>>
shutdownVars == <<wpc, global_work_mutex, queued, theEndFlag, dpc, joinI>>
indexVars == <<gdims, gshape, gstride, goffset, gindex, glinear, gpc>>
capiVars == <<variableNames, nvars, capi, iterator_name, accumulator,
              iterator_len, scalars_len, status, written>>
incVars == <<elementSize, start>>
auxVars == <<mapVars, ndVars, parserVars, shutdownVars, indexVars, capiVars, incVars>>
vars == <<schedVars, auxVars>>

----------------------------------------------------------------------------
\* Helpers

\* The joblets of the Worker in slot w
JobletsOf(w) == {j \in JobletIds : j[1] = w /\ j[2] < size[w]}

\* The message thrown by unit id of a job: units throw different messages
Message(j) == j[2] + 1

\* Joblets being executed by a pool thread (inside Worker::OnExecute)
Executing ==
  {j \in JobletIds : jpc[j] \in {"exec", "ran", "hand", "rel", "notify", "count", "finish"}}

\* asyncLock is held across a step only by a thread between the predicate of
\* work_condition.wait and the end of waitIdleInstance
asyncLock == {t \in Threads : cpc[t] = "locked"}

\* The threads blocked in work_condition.wait
waiting == {t \in Threads : cpc[t] = "blocked"}

\* An acquisition that looks at the idle list only
CanAcquire_NoCeiling(idle, active, maxp) == idle # <<>>

\* A push that puts the joblet in front of the queue
queue_push_front(q, j) == <<j>> \o q

\* work_queue.push(w) (expression.h:280), global_work_queue.push(this)
\* (async.h:61-66)
queue_push(q, j) == Append(q, j)

\* A test that lets the active count reach one past the ceiling
CanAcquire_Inclusive(idle, active, maxp) == idle # <<>> /\ active <= maxp

\* the predicate of getIdleInstance (negated early return) and of waitIdleInstance
CanAcquire(idle, active, maxp) == idle # <<>> /\ active < maxp

\* An acquisition that leaves the instance it returns on the idle list
pop_front_kept(idle) == idle

\* instancesIdle.pop_front() (expression.h:296, 314)
pop_front(idle) == Tail(idle)

\* A compileInstance that counts every acquisition
compileInstance_maxActive_always(r) == maxActive + 1

\* A compileInstance that compiles every instance of the Expression at once
compileInstance_isInit_all(r) == [i \in Instances |-> TRUE]

\* compileInstance: isInit and maxActive after compiling instance r
compileInstance_isInit(r) == [isInit EXCEPT ![r] = TRUE]
compileInstance_maxActive(r) == IF isInit[r] THEN maxActive ELSE maxActive + 1

\* A notify_one that wakes nobody
notify_lost(c) == {c}

\* work_condition.notify_one(): one of the blocked threads, if there is one,
\* returns from the wait to evaluate the predicate again; c is cpc without
\* the effect of the notification
notify_one(c) ==
  IF waiting = {} THEN {c} ELSE {[c EXCEPT ![u] = "wait"] : u \in waiting}

\* A receiver that is given the error when there is none
Outcome_inverted(e) == IF e = nullptr THEN "error" ELSE "result"

\* The receiver's view of a finished job: Worker::Error() decides between
\* the error and the result (async.h:235-239, 318-324)
Outcome(e) == IF e = nullptr THEN "result" ELSE "error"

----------------------------------------------------------------------------
\* No map call is being looked at
MapIdle ==
  /\ lenTotal = 0
  /\ joblets = 0
  /\ input = <<>>
  /\ output = <<>>
  /\ writers = {}
  /\ in_ptr = <<>>
  /\ unit = <<>>

\* No strided array is being looked at
NdIdle ==
  /\ dims = 0
  /\ shape = <<>>
  /\ stride = <<>>
  /\ offset = 0
  /\ length = 0
  /\ ndJoblets = 0
  /\ ndId = 0
  /\ index = <<>>
  /\ data_ptr = 0
  /\ data_end = 0
  /\ output_ptr = 0
  /\ reads = {}
  /\ ndpc = "none"

\* No Expression is being compiled
ParserIdle ==
  /\ isInitOf = <<>>
  /\ idleOf = <<>>
  /\ asyncLockOf = <<>>
  /\ parserMutex = <<>>
  /\ tpc = <<>>
  /\ texpr = <<>>
  /\ tinst = <<>>

\* No pool thread is modelled
ShutdownIdle ==
  /\ wpc = <<>>
  /\ global_work_mutex = 0
  /\ queued = 0
  /\ theEndFlag = FALSE
  /\ dpc = "none"
  /\ joinI = 0

\* No call of GetStridedIndex is modelled
IndexIdle ==
  /\ gdims = 0
  /\ gshape = <<>>
  /\ gstride = <<>>
  /\ goffset = 0
  /\ gindex = <<>>
  /\ glinear = 0
  /\ gpc = "none"

\* No call of the C API functions map and reduce is modelled
CapiIdle ==
  /\ variableNames = <<>>
  /\ nvars = 0
  /\ capi = "none"
  /\ iterator_name = ""
  /\ accumulator = ""
  /\ iterator_len = 0
  /\ scalars_len = 0
  /\ status = "none"
  /\ written = 0

\* IncrementStridedIndex is not being looked at
IncIdle ==
  /\ elementSize = 0
  /\ start = 0

\* The Expression after its construction (expression.cc:34-128)
Expression_Init ==
  /\ maxParallel = ExpressionMaxParallel
  /\ maxActive = 1
  /\ currentActive = 0
  /\ instancesIdle = [i \in 1..ExpressionMaxParallel |-> i]
  /\ isInit = [i \in Instances |-> i = 1]
  /\ work_queue = <<>>
  /\ predMax = 0
  /\ global_work_queue = <<>>
  /\ kind = [w \in Jobs |-> "none"]
  /\ size = [w \in Jobs |-> 0]
  /\ jobletsReady = [w \in Jobs |-> 0]
  /\ err = [w \in Jobs |-> nullptr]
  /\ raw = [w \in Jobs |-> FALSE]
  /\ instance = [j \in JobletIds |-> nullptr]
  /\ jpc = [j \in JobletIds |-> "none"]
  /\ next = [j \in JobletIds |-> <<>>]
  /\ mpc = "idle"
  /\ mjob = 0
  /\ mk = 0
  /\ queue_i = nullptr
  /\ self = 0
  /\ busy = FALSE
  /\ callGate = {}
  /\ delivered = "none"
  /\ deliveredErr = nullptr
  /\ cpc = [t \in Threads |-> "idle"]
  /\ cinstance = [t \in Threads |-> nullptr]
  /\ finished = [w \in Jobs |-> 0]
  /\ errLog = [w \in Jobs |-> <<>>]
  /\ placed = [j \in JobletIds |-> <<>>]
  /\ popped = [j \in JobletIds |-> 0]
  /\ peakActive = 0

Init ==
  /\ Expression_Init
  /\ IncIdle
  /\ CapiIdle
  /\ IndexIdle
  /\ ShutdownIdle
  /\ MapIdle
  /\ NdIdle
  /\ ParserIdle

----------------------------------------------------------------------------
\* The control thread: call setup and Job::run (async.h:297-335)

\* Where the control thread is when JS code is running on it, which can
\* call the Expression and to which a call returns: between two events of
\* the loop, or inside the callback of an asynchronous call that CallJS has
\* called (async.h:235-239)
JS == IF self = 0 THEN "idle" ELSE "callback"

\* The slot of the next Worker object to be constructed
NewJob == CHOOSE w \in Jobs : kind[w] = "none" /\ \A v \in Jobs : kind[v] = "none" => w <= v

\* A setup check fails: the exception is thrown to JS and the call returns
\* (expression.cc:216-218, 301-303; async.h:301-304)
SetupError(msg) ==
  /\ mpc' = msg
  /\ UNCHANGED <<poolVars, global_work_queue, workerVars, jobletVars, mjob, mk, queue_i, self,
                 busy, outVars, callerVars, histVars>>

\* Job::run: new AsyncWorker (async.h:305-313), or Semaphore sem(true) and
\* new SyncWorker (async.h:314-317), of n joblets, before Queue() is called;
\* load is the number of joblets that the model lets exist at a time.  With
\* n = 0 (an asynchronous call: a synchronous one has n > 1 here) the loop of
\* Queue() has nothing to iterate on and Job::run returns at once.
Worker_new(async, n, load) ==
  /\ \E w \in Jobs : kind[w] = "none"
  /\ Cardinality({j \in JobletIds : jpc[j] # "none"}) + n <= load
  /\ kind' = [kind EXCEPT ![NewJob] = IF async THEN "async" ELSE "sync"]
  /\ size' = [size EXCEPT ![NewJob] = n]
  /\ jpc' = [j \in JobletIds |->
               IF j[1] = NewJob /\ j[2] < n THEN "new" ELSE jpc[j]]
  /\ busy' = IF async THEN busy ELSE TRUE
  /\ mpc' = IF n = 0 THEN JS ELSE "Queue"
  /\ mjob' = IF n = 0 THEN 0 ELSE NewJob
  /\ mk' = 0
  /\ UNCHANGED <<poolVars, global_work_queue, jobletsReady, err, raw,
                 instance, next, queue_i, self, outVars, callerVars, histVars>>

\* Job::run with a callback that is a function, or a synchronous call
\* (async.h:305-334)
Job_run_start(async, n) ==
  IF async \/ n > 1
  THEN Worker_new(async, n, MaxJoblets)
  ELSE \* InstanceGuard<T> i(expression)
       /\ mpc' = "mono"
       /\ cpc' = [cpc EXCEPT ![0] = "wait"]
       /\ UNCHANGED <<poolVars, global_work_queue, workerVars, jobletVars, mjob,
                      mk, queue_i, self, busy, outVars, cinstance, histVars>>

\* A Job::run that constructs the AsyncWorker before it looks at the callback
Job_run_late(async, n, cb) ==
  IF async /\ ~cb
  THEN /\ \E w \in Jobs : kind[w] = "none"
       /\ kind' = [kind EXCEPT ![NewJob] = "async"]
       /\ size' = [size EXCEPT ![NewJob] = n]
       /\ jpc' = [j \in JobletIds |->
                    IF j[1] = NewJob /\ j[2] < n THEN "new" ELSE jpc[j]]
       /\ mjob' = NewJob
       /\ mpc' = "TypeError: callback"
       /\ UNCHANGED <<poolVars, global_work_queue, jobletsReady, err, raw,
                      instance, next, mk, queue_i, self, busy, outVars, callerVars, histVars>>
  ELSE Job_run_start(async, n)

\* Job::run (async.h:297-335); cb: the callback argument is a function
Job_run(async, n, cb) ==
  IF async /\ ~cb
  THEN SetupError("TypeError: callback")
  ELSE Job_run_start(async, n)

\* eval / reduce: one joblet, no thread count argument (expression.cc:196-226);
\* args: the arguments pass the checks of the call setup
eval(async, args, cb) ==
  /\ mpc = JS
  /\ IF ~args
     THEN SetupError("TypeError: arguments")
     ELSE Job_run(async, 1, cb)
  /\ UNCHANGED auxVars

\* map / cwise called with a thread count (expression.cc:290-392, 749-1025).
\* After the checks of the arguments the length of a slice is computed as
\* (lenTotal + job.joblets - 1) / job.joblets (expression.cc:368, 890): with
\* a thread count of 0 this is an integer division by zero, whose behaviour
\* is undefined; the process is killed by the signal of the division, or
\* the division yields some value and the call goes on to Job::run.
map(async, threads, args, cb) ==
  /\ mpc = JS
  /\ IF threads > maxParallel
     THEN SetupError("TypeError: threads")
     ELSE IF ~args
          THEN SetupError("TypeError: arguments")
          ELSE IF threads = 0
               THEN \/ SetupError("SIGFPE")
                    \/ Job_run(async, 0, cb)
               ELSE Job_run(async, threads, cb)
  /\ UNCHANGED auxVars

\* The Worker in slot w and its joblets are gone from memory
Gone(w) ==
  /\ kind' = [kind EXCEPT ![w] = "none"]
  /\ size' = [size EXCEPT ![w] = 0]
  /\ jobletsReady' = [jobletsReady EXCEPT ![w] = 0]
  /\ err' = [err EXCEPT ![w] = nullptr]
  /\ raw' = [raw EXCEPT ![w] = FALSE]
  /\ jpc' = [j \in JobletIds |-> IF j[1] = w THEN "none" ELSE jpc[j]]
  /\ finished' = [finished EXCEPT ![w] = 0]
  /\ errLog' = [errLog EXCEPT ![w] = <<>>]
  /\ placed' = [j \in JobletIds |-> IF j[1] = w THEN <<>> ELSE placed[j]]
  /\ popped' = [j \in JobletIds |-> IF j[1] = w THEN 0 ELSE popped[j]]
  /\ UNCHANGED peakActive

\* A call has returned to JS with an exception pending ("TypeError: ..." are
\* the ones of the call setup, "TypeError" is the one of SetMaxParallel): JS goes on.  A Worker that was leaked by the call is
\* unreachable memory: the model forgets it.
js_catch ==
  /\ mpc \in {"TypeError", "TypeError: threads", "TypeError: arguments",
              "TypeError: callback", "Error"}
  /\ mpc' = JS
  /\ IF mjob # 0
     THEN Gone(mjob)
     ELSE UNCHANGED <<workerVars, jpc, histVars>>
  /\ mjob' = 0
  /\ delivered' = IF self = 0 THEN "none" ELSE Outcome(err[self])
  /\ deliveredErr' = IF self = 0 THEN nullptr ELSE err[self]
  /\ UNCHANGED <<poolVars, global_work_queue, instance, next, mk, queue_i, self, busy, callGate,
                 callerVars>>
  /\ UNCHANGED auxVars

\* A synchronous multithreaded call has returned its result to JS: JS goes on
js_return ==
  /\ mpc = "return"
  /\ mpc' = JS
  /\ delivered' = IF self = 0 THEN "none" ELSE Outcome(err[self])
  /\ deliveredErr' = IF self = 0 THEN nullptr ELSE err[self]
  /\ UNCHANGED <<poolVars, global_work_queue, workerVars, jobletVars, mjob, mk,
                 queue_i, self, busy, callGate, callerVars, histVars>>
  /\ UNCHANGED auxVars

\* The end of one iteration of the loop of Worker::Queue, and what follows
\* the loop in Job::run
QueueNext(w, k) ==
  IF k + 1 < size[w]
  THEN /\ mpc' = "Queue"
       /\ mk' = k + 1
       /\ UNCHANGED mjob
  ELSE IF kind[w] = "async"
       THEN \* return info.Env().Undefined()
            /\ mpc' = JS
            /\ mjob' = 0
            /\ mk' = 0
       ELSE \* sem.lock()
            /\ mpc' = "semlock"
            /\ mk' = 0
            /\ UNCHANGED mjob

\* Worker::Queue, one iteration: ExpressionInstance<T> *i =
\* expression->getIdleInstance() (async.h:157, expression.h:291-299), the
\* critical section of asyncLock; the instance returned is in the local i
\* until the joblet is put on the global queue
getIdleInstance ==
  /\ mpc = "Queue"
  /\ asyncLock = {}
  /\ IF CanAcquire(instancesIdle, currentActive, maxParallel)
     THEN /\ instancesIdle' = pop_front(instancesIdle)
          /\ currentActive' = currentActive + 1
          /\ isInit' = compileInstance_isInit(Head(instancesIdle))
          /\ maxActive' = compileInstance_maxActive(Head(instancesIdle))
          /\ queue_i' = Head(instancesIdle)
          /\ peakActive' = IF currentActive + 1 > peakActive
                           THEN currentActive + 1 ELSE peakActive
          /\ mpc' = "Queue_global"
     ELSE /\ mpc' = "Queue_local"
          /\ UNCHANGED <<instancesIdle, currentActive, isInit, maxActive,
                         queue_i, peakActive>>
  /\ UNCHANGED <<maxParallel, work_queue, predMax, global_work_queue,
                 workerVars, jobletVars, mjob, mk, self, busy, outVars,
                 callerVars, finished, errLog, placed, popped>>
  /\ UNCHANGED auxVars

\* Worker::Queue with an instance: j.instance = i; j.enqueue()
\* (async.h:161-163), which takes global_work_mutex and pushes the joblet
\* to the global queue (async.h:61-66)
Queue_global ==
  /\ mpc = "Queue_global"
  /\ instance' = [instance EXCEPT ![<<mjob, mk>>] = queue_i]
  /\ global_work_queue' = queue_push(global_work_queue, <<mjob, mk>>)
  /\ jpc' = [jpc EXCEPT ![<<mjob, mk>>] = "global"]
  /\ placed' = [placed EXCEPT ![<<mjob, mk>>] = Append(@, "Queue")]
  /\ queue_i' = nullptr
  /\ QueueNext(mjob, mk)
  /\ UNCHANGED <<poolVars, workerVars, next, self, busy, outVars, callerVars,
                 finished, errLog, popped, peakActive>>
  /\ UNCHANGED auxVars

\* Worker::Queue: expression->enqueue(&j) on the local queue
\* (async.h:168, expression.h:278-281)
enqueue ==
  /\ mpc = "Queue_local"
  /\ asyncLock = {}
  /\ work_queue' = queue_push(work_queue, <<mjob, mk>>)
  /\ jpc' = [jpc EXCEPT ![<<mjob, mk>>] = "local"]
  /\ QueueNext(mjob, mk)
  /\ UNCHANGED <<maxParallel, maxActive, currentActive, instancesIdle, isInit,
                 predMax, global_work_queue, workerVars, instance, next,
                 queue_i, self, busy, outVars, callerVars, histVars>>
  /\ UNCHANGED auxVars

\* Semaphore::lock (semaphore.h:17-21): the predicate is evaluated under the
\* mutex; the thread blocks in cond.wait or takes the semaphore
Semaphore_lock ==
  /\ mpc = "semlock"
  /\ IF busy
     THEN /\ mpc' = "semwait"
          /\ UNCHANGED busy
     ELSE /\ busy' = TRUE
          /\ mpc' = "syncret"
  /\ UNCHANGED <<poolVars, global_work_queue, workerVars, jobletVars, mjob, mk, queue_i, self,
                 outVars, callerVars, histVars>>
  /\ UNCHANGED auxVars

\* cond.wait returns spuriously and the predicate is evaluated again
Semaphore_wake ==
  /\ mpc = "semwait"
  /\ mpc' = "semlock"
  /\ UNCHANGED <<poolVars, global_work_queue, workerVars, jobletVars, mjob, mk, queue_i, self,
                 busy, outVars, callerVars, histVars>>
  /\ UNCHANGED auxVars

\* Job::run after sem.lock() (async.h:318-324): the error is thrown and the
\* Worker is not deleted, or the result is read, the Worker deleted and the
\* result returned; the Semaphore, a local of Job::run, goes out of scope on
\* both returns and the model forgets it
Job_run_return ==
  /\ mpc = "syncret"
  /\ IF err[mjob] # nullptr
     THEN /\ mpc' = "Error"
          /\ kind' = [kind EXCEPT ![mjob] = "leaked"]
          /\ UNCHANGED <<size, jobletsReady, err, raw, jpc, histVars, mjob>>
     ELSE /\ mpc' = "return"
          /\ Gone(mjob)
          /\ mjob' = 0
  /\ delivered' = Outcome(err[mjob])
  /\ deliveredErr' = err[mjob]
  /\ busy' = FALSE
  /\ UNCHANGED <<poolVars, global_work_queue, instance, next, mk, queue_i, self,
                 callGate, callerVars>>
  /\ UNCHANGED auxVars

\* A SetMaxParallel that trims the idle list to the new ceiling
SetMaxParallel_evict(newMax) ==
  /\ mpc = JS
  /\ IF newMax > maxParallel
     THEN /\ mpc' = "TypeError"
          /\ UNCHANGED <<maxParallel, instancesIdle>>
     ELSE /\ maxParallel' = newMax
          /\ instancesIdle' = SubSeq(instancesIdle, 1,
                                     IF Len(instancesIdle) < newMax
                                     THEN Len(instancesIdle) ELSE newMax)
          /\ UNCHANGED mpc
  /\ UNCHANGED <<maxActive, currentActive, isInit, work_queue,
                 predMax, global_work_queue, workerVars, jobletVars, mjob, mk, queue_i, self,
                 busy, outVars, callerVars, histVars>>
  /\ UNCHANGED auxVars

\* Expression::SetMaxParallel (expression.cc:1357-1375)
SetMaxParallel(newMax) ==
  /\ mpc = JS
  /\ IF newMax > maxParallel
     THEN /\ mpc' = "TypeError"
          /\ UNCHANGED maxParallel
     ELSE /\ maxParallel' = newMax
          /\ UNCHANGED mpc
  /\ UNCHANGED <<maxActive, currentActive, instancesIdle, isInit, work_queue,
                 predMax, global_work_queue, workerVars, jobletVars, mjob, mk, queue_i, self,
                 busy, outVars, callerVars, histVars>>
  /\ UNCHANGED auxVars

\* A CallJS that the control thread runs before OnFinish has called the
\* threadsafe function
CallJS_early(w) ==
  /\ mpc = "idle"
  /\ kind[w] = "async"
  /\ callGate' = callGate \ {w}
  /\ mpc' = "callback"
  /\ self' = w
  /\ delivered' = Outcome(err[w])
  /\ deliveredErr' = err[w]
  /\ UNCHANGED <<poolVars, global_work_queue, workerVars, jobletVars, mjob, mk,
                 queue_i, busy, callerVars, histVars>>
  /\ UNCHANGED auxVars

\* AsyncWorker::CallJS on the control thread (async.h:228-239), run by the
\* event loop when no JS is running: the JS callback is called with the
\* error or with the result.  The callback is JS code: until it returns it
\* can call the Expression as any other JS code does.
CallJS(w) ==
  /\ mpc = "idle"
  /\ w \in callGate
  /\ callGate' = callGate \ {w}
  /\ mpc' = "callback"
  /\ self' = w
  /\ delivered' = Outcome(err[w])
  /\ deliveredErr' = err[w]
  /\ UNCHANGED <<poolVars, global_work_queue, workerVars, jobletVars, mjob, mk,
                 queue_i, busy, callerVars, histVars>>
  /\ UNCHANGED auxVars

\* AsyncWorker::CallJS: the callback has returned; delete self (async.h:246)
CallJS_delete ==
  /\ mpc = "callback"
  /\ Gone(self)
  /\ mpc' = "idle"
  /\ self' = 0
  /\ delivered' = "none"
  /\ deliveredErr' = nullptr
  /\ UNCHANGED <<poolVars, global_work_queue, instance, next, mjob, mk, queue_i,
                 busy, callGate, callerVars>>
  /\ UNCHANGED auxVars

\* A destructor that never reports
Destructor_reports_never(init0, free, n) == FALSE

\* ~Expression: the diagnostic is written to stderr (expression.cc:132-136);
\* free is the number of entries popped from instancesIdle, n is
\* instances.size()
Destructor_reports(init0, free, n) == init0 /\ free # n

\* Expression::~Expression (expression.cc:130-152), run by the garbage
\* collector on the control thread between two calls.  A Worker holds a
\* persistent reference to the Expression (async.h:298, 216), so no Worker
\* exists; a thread in the C API holds none.  The object is freed with its
\* instances, asyncLock and work_condition: a thread of the C API that is
\* inside a call goes on in freed memory (capi_use_after_free).
Expression_destructor ==
  /\ mpc = "idle"
  /\ \A w \in Jobs : kind[w] = "none"
  /\ asyncLock = {}
  /\ instancesIdle' = IF isInit[1] THEN <<>> ELSE instancesIdle
  /\ mpc' = IF Destructor_reports(isInit[1], Len(instancesIdle), ExpressionMaxParallel)
            THEN "~Expression: GC waiting"
            ELSE "~Expression"
  /\ UNCHANGED <<maxParallel, maxActive, currentActive, isInit, work_queue,
                 predMax, global_work_queue, workerVars, jobletVars, mjob, mk, queue_i, self,
                 busy, outVars, callerVars, histVars>>
  /\ UNCHANGED auxVars

----------------------------------------------------------------------------
\* The pool threads: workerThread (async.cc:20-32) and Worker::OnExecute
\* (async.h:123-153).  A thread takes no step once a signal (SIGFPE, SIGSEGV)
\* has ended the process.

\* A shutdown flag that the pool threads never see
theEnd_unseen == FALSE

\* static bool theEnd (async.cc:11), set by threadsDestructor.  It is a plain
\* bool written without global_work_mutex: a pool thread that sees it late
\* pops as a thread that popped before the shutdown.
theEnd == mpc \in {"exit", "exit after ~Expression"}

\* threadsDestructor (async.cc:13-18), registered with atexit (async.cc:35):
\* the process exits from JS between two calls, with the Expression alive or
\* after the garbage collector has destroyed it, or by exit(1) when the
\* callback of an asynchronous call throws (async.h:240-245)
threadsDestructor ==
  /\ mpc \in {"idle", "callback", "~Expression", "~Expression: GC waiting"}
  /\ mpc' = IF mpc \in {"idle", "callback"} THEN "exit" ELSE "exit after ~Expression"
  /\ UNCHANGED <<poolVars, global_work_queue, workerVars, jobletVars, mjob, mk, queue_i, self,
                 busy, outVars, callerVars, histVars>>
  /\ UNCHANGED auxVars

\* A pop that leaves the front entry in the queue
queue_pop_kept(q) == q

\* global_work_queue.pop() (async.cc:28), work_queue.pop() (expression.h:287)
queue_pop(q) == Tail(q)

\* workerThread: a pool thread that is not executing a joblet and has not seen
\* theEnd pops the front of the global queue and calls OnExecute
workerThread(j) ==
  /\ mpc \notin {"SIGFPE", "SIGSEGV"}
  /\ ~theEnd
  /\ global_work_queue # <<>>
  /\ j = Head(global_work_queue)
  /\ Cardinality(Executing) < NumThreads
  /\ global_work_queue' = queue_pop(global_work_queue)
  /\ jpc' = [jpc EXCEPT ![j] = "exec"]
  /\ popped' = [popped EXCEPT ![j] = @ + 1]
  /\ UNCHANGED <<poolVars, workerVars, instance, next, mainVars, busy, outVars,
                 callerVars, finished, errLog, placed, peakActive>>
  /\ UNCHANGED auxVars

\* An error slot that keeps the first message
CatchErr_first(old, msg) == IF old = nullptr THEN msg ELSE old

\* The error slot after a unit threw msg: catch (const char *err) { this->err = err; }
\* (async.h:128)
CatchErr(old, msg) == msg

\* OnExecute: raw = doit(*joblet->instance, joblet->id), which returns or throws
\* (async.h:126-128)
doit(j, ok) ==
  /\ mpc \notin {"SIGFPE", "SIGSEGV"}
  /\ jpc[j] = "exec"
  /\ jpc' = [jpc EXCEPT ![j] = "ran"]
  /\ IF ok
     THEN /\ raw' = [raw EXCEPT ![j[1]] = TRUE]
          /\ UNCHANGED <<err, errLog>>
     ELSE /\ err' = [err EXCEPT ![j[1]] = CatchErr(err[j[1]], Message(j))]
          /\ errLog' = [errLog EXCEPT ![j[1]] = Append(errLog[j[1]], Message(j))]
          /\ UNCHANGED raw
  /\ UNCHANGED <<poolVars, global_work_queue, kind, size, jobletsReady,
                 instance, next, mainVars, busy, outVars, callerVars, finished,
                 placed, popped, peakActive>>
  /\ UNCHANGED auxVars

\* OnExecute: auto *w = expression->dequeue() (async.h:130, expression.h:283-289)
dequeue(j) ==
  /\ mpc \notin {"SIGFPE", "SIGSEGV"}
  /\ jpc[j] = "ran"
  /\ asyncLock = {}
  /\ IF work_queue = <<>>
     THEN /\ jpc' = [jpc EXCEPT ![j] = "rel"]
          /\ UNCHANGED <<work_queue, next>>
     ELSE /\ work_queue' = queue_pop(work_queue)
          /\ next' = [next EXCEPT ![j] = Head(work_queue)]
          /\ jpc' = [jpc EXCEPT ![j] = "hand", ![Head(work_queue)] = "taken"]
  /\ UNCHANGED <<maxParallel, maxActive, currentActive, instancesIdle, isInit,
                 predMax, global_work_queue, workerVars, instance, mainVars, busy,
                 outVars, callerVars, histVars>>
  /\ UNCHANGED auxVars

\* OnExecute: w->instance = joblet->instance; w->enqueue() (async.h:132-140).
\* joblet->instance is not read again: the model forgets it.
handoff(j) ==
  /\ mpc \notin {"SIGFPE", "SIGSEGV"}
  /\ jpc[j] = "hand"
  /\ instance' = [instance EXCEPT ![next[j]] = instance[j], ![j] = nullptr]
  /\ global_work_queue' = queue_push(global_work_queue, next[j])
  /\ jpc' = [jpc EXCEPT ![j] = "count", ![next[j]] = "global"]
  /\ next' = [next EXCEPT ![j] = <<>>]
  /\ placed' = [placed EXCEPT ![next[j]] = Append(@, "OnExecute")]
  /\ UNCHANGED <<poolVars, workerVars, mainVars, busy, outVars, callerVars,
                 finished, errLog, popped, peakActive>>
  /\ UNCHANGED auxVars

\* A release that leaves the active count as it is
releaseIdleInstance_active_kept == currentActive

\* A release that does not put the instance back on the idle list
releaseIdleInstance_idle_dropped(i) == instancesIdle

\* Expression::releaseIdleInstance (expression.h:301-307): the idle list and
\* the active count after instance i is released
releaseIdleInstance_idle(i) == <<i>> \o instancesIdle
releaseIdleInstance_active == currentActive - 1

\* OnExecute: expression->releaseIdleInstance(joblet->instance) (async.h:142),
\* the critical section of asyncLock (expression.h:302-305).
\* joblet->instance is not read again: the model forgets it.
release(j) ==
  /\ mpc \notin {"SIGFPE", "SIGSEGV"}
  /\ jpc[j] = "rel"
  /\ asyncLock = {}
  /\ instancesIdle' = releaseIdleInstance_idle(instance[j])
  /\ currentActive' = releaseIdleInstance_active
  /\ instance' = [instance EXCEPT ![j] = nullptr]
  /\ jpc' = [jpc EXCEPT ![j] = "notify"]
  /\ UNCHANGED <<maxParallel, maxActive, isInit, work_queue, predMax,
                 global_work_queue, workerVars, next, mainVars, busy, outVars,
                 callerVars, histVars>>
  /\ UNCHANGED auxVars

\* releaseIdleInstance called by OnExecute, after lock.unlock():
\* work_condition.notify_one() (expression.h:306)
release_notify(j) ==
  /\ mpc \notin {"SIGFPE", "SIGSEGV"}
  /\ jpc[j] = "notify"
  /\ cpc' \in notify_one(cpc)
  /\ jpc' = [jpc EXCEPT ![j] = "count"]
  /\ UNCHANGED <<poolVars, global_work_queue, workerVars, instance, next,
                 mainVars, busy, outVars, cinstance, histVars>>
  /\ UNCHANGED auxVars

\* A test that every worker of the job passes
IsLast_any(ready, sz) == ready + 1 <= sz

\* A test that the first worker to finish passes
IsLast_first(ready, sz) == ready = 0

\* A test that the worker before the last one passes
IsLast_but_one(ready, sz) == ready + 2 = sz

\* if (ready + 1 == size) (async.h:152)
IsLast(ready, sz) == ready + 1 = sz

\* OnExecute: size_t ready = jobletsReady.fetch_add(1) (async.h:145-152)
fetch_add(j) ==
  /\ mpc \notin {"SIGFPE", "SIGSEGV"}
  /\ jpc[j] = "count"
  /\ jobletsReady' = [jobletsReady EXCEPT ![j[1]] = @ + 1]
  /\ jpc' = [jpc EXCEPT ![j] = IF IsLast(jobletsReady[j[1]], size[j[1]])
                                THEN "finish" ELSE "done"]
  /\ UNCHANGED <<poolVars, global_work_queue, kind, size, err, raw,
                 instance, next, mainVars, busy, outVars, callerVars, histVars>>
  /\ UNCHANGED auxVars

\* An unlock that does not notify
Semaphore_unlock_silent(m) == m

\* Semaphore::unlock (semaphore.h:23-31): busy = false
Semaphore_unlock_busy == FALSE
\* Semaphore::unlock: cond.notify_all() lets the thread blocked in lock()
\* evaluate the predicate again; m is where the control thread is
Semaphore_unlock_notify(m) == IF m = "semwait" THEN "semlock" ELSE m

\* OnExecute: OnFinish() (async.h:152): SyncWorker::OnFinish unlocks the
\* semaphore (async.h:271-273), AsyncWorker::OnFinish calls the threadsafe
\* function, which queues CallJS for the control thread (async.h:223-226)
OnFinish(j) ==
  /\ mpc \notin {"SIGFPE", "SIGSEGV"}
  /\ jpc[j] = "finish"
  /\ jpc' = [jpc EXCEPT ![j] = "done"]
  /\ finished' = [finished EXCEPT ![j[1]] = @ + 1]
  /\ IF kind[j[1]] = "sync"
     THEN /\ busy' = Semaphore_unlock_busy
          /\ mpc' = Semaphore_unlock_notify(mpc)
          /\ UNCHANGED callGate
     ELSE /\ callGate' = callGate \cup {j[1]}
          /\ UNCHANGED <<busy, mpc>>
  /\ UNCHANGED <<poolVars, global_work_queue, workerVars, instance, next, mjob, mk, queue_i, self,
                 delivered, deliveredErr, callerVars, errLog, placed, popped,
                 peakActive>>
  /\ UNCHANGED auxVars

----------------------------------------------------------------------------
\* Synchronous single instance calls: InstanceGuard (expression.h:323-340),
\* used by Job::run on the control thread (thread 0, async.h:326-334) and by
\* the C API entry points on foreign threads (expression.cc:228-242, 394-432).
\* A thread takes no step once a signal has ended the process.

\* A foreign thread enters a C API function: InstanceGuard<T> instance(this)
capi_call(t) ==
  /\ t # 0
  /\ mpc \notin {"SIGFPE", "SIGSEGV"}
  /\ cpc[t] \in {"idle", "exprtk_invalid_argument"}
  /\ cpc' = [cpc EXCEPT ![t] = "wait"]
  /\ UNCHANGED <<poolVars, global_work_queue, workerVars, jobletVars, mainVars,
                 busy, outVars, cinstance, histVars>>
  /\ UNCHANGED auxVars

\* waitIdleInstance: the predicate of work_condition.wait is evaluated with
\* asyncLock held (expression.h:310-311); the thread blocks, or goes on
\* holding the lock
waitIdleInstance_wait(t) ==
  /\ mpc \notin {"SIGFPE", "SIGSEGV"}
  /\ cpc[t] = "wait"
  /\ asyncLock = {}
  /\ IF CanAcquire(instancesIdle, currentActive, maxParallel)
     THEN /\ cpc' = [cpc EXCEPT ![t] = "locked"]
          /\ predMax' = maxParallel
     ELSE /\ cpc' = [cpc EXCEPT ![t] = "blocked"]
          /\ UNCHANGED predMax
  /\ UNCHANGED <<maxParallel, maxActive, currentActive, instancesIdle, isInit,
                 work_queue, global_work_queue, workerVars, jobletVars, mainVars,
                 busy, outVars, cinstance, histVars>>
  /\ UNCHANGED auxVars

\* work_condition.wait returns spuriously and the predicate is evaluated again
waitIdleInstance_wake(t) ==
  /\ mpc \notin {"SIGFPE", "SIGSEGV"}
  /\ cpc[t] = "blocked"
  /\ cpc' = [cpc EXCEPT ![t] = "wait"]
  /\ UNCHANGED <<poolVars, global_work_queue, workerVars, jobletVars, mainVars,
                 busy, outVars, cinstance, histVars>>
  /\ UNCHANGED auxVars

\* waitIdleInstance after the wait (expression.h:312-316)
waitIdleInstance(t) ==
  /\ mpc \notin {"SIGFPE", "SIGSEGV"}
  /\ cpc[t] = "locked"
  /\ instancesIdle' = pop_front(instancesIdle)
  /\ currentActive' = currentActive + 1
  /\ isInit' = compileInstance_isInit(Head(instancesIdle))
  /\ maxActive' = compileInstance_maxActive(Head(instancesIdle))
  /\ cinstance' = [cinstance EXCEPT ![t] = Head(instancesIdle)]
  /\ cpc' = [cpc EXCEPT ![t] = "run"]
  /\ predMax' = 0
  /\ peakActive' = IF currentActive + 1 > peakActive
                   THEN currentActive + 1 ELSE peakActive
  /\ UNCHANGED <<maxParallel, work_queue, global_work_queue, workerVars,
                 jobletVars, mainVars, busy, outVars, finished, errLog, placed,
                 popped>>
  /\ UNCHANGED auxVars

\* A guard that releases its instance only on the return that follows a unit
\* of work that succeeded
InstanceGuard_destructor_on_success(t, ok) ==
  IF ok
  THEN <<releaseIdleInstance_idle(cinstance[t]), releaseIdleInstance_active>>
  ELSE <<instancesIdle, currentActive>>

\* ~InstanceGuard (expression.h:329-331): the idle list and the active count
\* after the guard of thread t has gone out of scope; the destructor runs on
\* the return of the result, on a return of exprtk_invalid_argument and when
\* the exception of a unit unwinds the try block (ok = FALSE)
InstanceGuard_destructor(t, ok) ==
  <<releaseIdleInstance_idle(cinstance[t]), releaseIdleInstance_active>>

\* The unit of work has run on the caller's thread with the guarded instance
\* (main(*i(), 0) in Job::run, the evaluation of a C API function) and has
\* returned or failed; a C API function fails when one of its checks, made
\* with the instance held, returns exprtk_invalid_argument
\* (expression.cc:406-421, 562-579, 1035-1067); ~InstanceGuard:
\* expression->releaseIdleInstance(instance), the critical section of
\* asyncLock (expression.h:302-305).  The guard, with its pointer, exists
\* until its destructor returns.
InstanceGuard_release(t, ok) ==
  /\ mpc \notin {"SIGFPE", "SIGSEGV"}
  /\ cpc[t] = "run"
  /\ asyncLock = {}
  /\ instancesIdle' = InstanceGuard_destructor(t, ok)[1]
  /\ currentActive' = InstanceGuard_destructor(t, ok)[2]
  /\ cpc' = [cpc EXCEPT ![t] = IF ok THEN "notify" ELSE "notify: failed"]
  /\ UNCHANGED <<maxParallel, maxActive, isInit, work_queue, predMax,
                 global_work_queue, workerVars, jobletVars, mainVars, busy,
                 outVars, cinstance, histVars>>
  /\ UNCHANGED auxVars

\* releaseIdleInstance called by ~InstanceGuard, after lock.unlock():
\* work_condition.notify_one() (expression.h:306); then the call returns (a
\* result or a status, or the caught error as a JS exception,
\* async.h:330-333)
InstanceGuard_return(t) ==
  /\ mpc \notin {"SIGFPE", "SIGSEGV"}
  /\ cpc[t] \in {"notify", "notify: failed"}
  /\ cpc' \in notify_one([cpc EXCEPT ![t] = IF t # 0 /\ cpc[t] = "notify: failed"
                                              THEN "exprtk_invalid_argument"
                                              ELSE "idle"])
  /\ cinstance' = [cinstance EXCEPT ![t] = nullptr]
  /\ mpc' = IF t # 0 THEN mpc ELSE IF cpc[t] = "notify" THEN JS ELSE "Error"
  /\ UNCHANGED <<poolVars, global_work_queue, workerVars, jobletVars, mjob, mk,
                 queue_i, self, busy, outVars, histVars>>
  /\ UNCHANGED auxVars

\* A thread inside a call of the C API goes on after ~Expression has run:
\* its next access (asyncLock, work_condition, the idle list, the instance
\* of its guard; expression.cc:228-242, expression.h:301-317) is a use of
\* freed memory, undefined behaviour.  It finds the memory as the destructor
\* left it, which are the steps above, or the process ends with SIGSEGV.
capi_use_after_free(t) ==
  /\ mpc \in {"~Expression", "~Expression: GC waiting", "exit after ~Expression"}
  /\ cpc[t] \in {"wait", "blocked", "locked", "run", "notify", "notify: failed"}
  /\ mpc' = "SIGSEGV"
  /\ UNCHANGED <<poolVars, global_work_queue, workerVars, jobletVars, mjob, mk,
                 queue_i, self, busy, outVars, callerVars, histVars>>
  /\ UNCHANGED auxVars

----------------------------------------------------------------------------
Next ==
  \/ \E async, args, cb \in BOOLEAN : eval(async, args, cb)
  \/ \E async, args, cb \in BOOLEAN, threads \in 1..(ExpressionMaxParallel + 1) :
       map(async, threads, args, cb)
  \/ js_catch
  \/ js_return
  \/ getIdleInstance
  \/ Queue_global
  \/ enqueue
  \/ Semaphore_lock
  \/ Semaphore_wake
  \/ Job_run_return
  \/ \E newMax \in 0..(ExpressionMaxParallel + 1) : SetMaxParallel(newMax)
  \/ \E w \in Jobs : CallJS(w)
  \/ CallJS_delete
  \/ Expression_destructor
  \/ \E t \in Threads : capi_use_after_free(t)
  \/ threadsDestructor
  \/ \E j \in JobletIds : workerThread(j)
  \/ \E j \in JobletIds, ok \in BOOLEAN : doit(j, ok)
  \/ \E j \in JobletIds : dequeue(j)
  \/ \E j \in JobletIds : handoff(j)
  \/ \E j \in JobletIds : release(j)
  \/ \E j \in JobletIds : release_notify(j)
  \/ \E j \in JobletIds : fetch_add(j)
  \/ \E j \in JobletIds : OnFinish(j)
  \/ \E t \in Threads : capi_call(t)
  \/ \E t \in Threads : waitIdleInstance_wait(t)
  \/ \E t \in Threads : waitIdleInstance_wake(t)
  \/ \E t \in Threads : waitIdleInstance(t)
  \/ \E t \in Threads, ok \in BOOLEAN : InstanceGuard_release(t, ok)
  \/ \E t \in Threads : InstanceGuard_return(t)

Spec == Init /\ [][Next]_vars

\* A step of a pool thread
PoolStep ==
  \E j \in JobletIds :
    \/ workerThread(j)
    \/ \E ok \in BOOLEAN : doit(j, ok)
    \/ dequeue(j)
    \/ handoff(j)
    \/ release(j)
    \/ release_notify(j)
    \/ fetch_add(j)
    \/ OnFinish(j)

\* The pool threads are scheduled and get the mutexes they ask for again and
\* again; a thread that holds asyncLock in waitIdleInstance goes on and
\* leaves it
Fairness ==
  /\ SF_vars(PoolStep)
  /\ \A t \in Threads : WF_vars(waitIdleInstance(t))

\* The asynchronous calls, the callers of the C API, the pool threads and the
\* shutdown
PoolNext ==
  \/ eval(TRUE, TRUE, TRUE)
  \/ \E threads \in 1..ExpressionMaxParallel : map(TRUE, threads, TRUE, TRUE)
  \/ getIdleInstance
  \/ Queue_global
  \/ enqueue
  \/ \E w \in Jobs : CallJS(w)
  \/ CallJS_delete
  \/ threadsDestructor
  \/ \E j \in JobletIds : workerThread(j)
  \/ \E j \in JobletIds, ok \in BOOLEAN : doit(j, ok)
  \/ \E j \in JobletIds : dequeue(j)
  \/ \E j \in JobletIds : handoff(j)
  \/ \E j \in JobletIds : release(j)
  \/ \E j \in JobletIds : release_notify(j)
  \/ \E j \in JobletIds : fetch_add(j)
  \/ \E j \in JobletIds : OnFinish(j)
  \/ \E t \in Threads : capi_call(t)
  \/ \E t \in Threads : waitIdleInstance_wait(t)
  \/ \E t \in Threads : waitIdleInstance_wake(t)
  \/ \E t \in Threads : waitIdleInstance(t)
  \/ \E t \in Threads, ok \in BOOLEAN : InstanceGuard_release(t, ok)
  \/ \E t \in Threads : InstanceGuard_return(t)

PoolSpec == Init /\ [][PoolNext]_vars /\ Fairness

----------------------------------------------------------------------------
\* The asynchronous calls under a load of MaxQueued joblets: the local queue
\* holds units of several jobs at a time

\* The number of joblets that exist at a time under this load
MaxQueued == 3

\* An asynchronous eval whose arguments and callback pass the checks
\* (expression.cc:196-226, async.h:305-313)
eval_async ==
  /\ mpc = JS
  /\ Worker_new(TRUE, 1, MaxQueued)
  /\ UNCHANGED auxVars

\* An asynchronous map whose thread count, arguments and callback pass the
\* checks (expression.cc:290-392, async.h:305-313)
map_async(threads) ==
  /\ mpc = JS
  /\ threads <= maxParallel
  /\ Worker_new(TRUE, threads, MaxQueued)
  /\ UNCHANGED auxVars

QueueNext_async ==
  \/ eval_async
  \/ \E threads \in 1..ExpressionMaxParallel : map_async(threads)
  \/ getIdleInstance
  \/ Queue_global
  \/ enqueue
  \/ \E w \in Jobs : CallJS(w)
  \/ CallJS_delete
  \/ \E j \in JobletIds : workerThread(j)
  \/ \E j \in JobletIds : doit(j, TRUE)
  \/ \E j \in JobletIds : dequeue(j)
  \/ \E j \in JobletIds : handoff(j)
  \/ \E j \in JobletIds : release(j)
  \/ \E j \in JobletIds : release_notify(j)
  \/ \E j \in JobletIds : fetch_add(j)
  \/ \E j \in JobletIds : OnFinish(j)
  \/ \E t \in Threads : capi_call(t)
  \/ \E t \in Threads : waitIdleInstance_wait(t)
  \/ \E t \in Threads : waitIdleInstance_wake(t)
  \/ \E t \in Threads : waitIdleInstance(t)
  \/ \E t \in Threads : InstanceGuard_release(t, TRUE)
  \/ \E t \in Threads : InstanceGuard_return(t)

QueueSpec == Init /\ [][QueueNext_async]_vars

----------------------------------------------------------------------------
\* A finite load with blocking callers: at most MaxJobs asynchronous evals,
\* of one joblet each, whose callbacks are still to come, one
\* synchronous eval on the control thread and one call of the C API by each
\* foreign thread; the ceiling is lowered but stays at least 1.  A call that
\* holds an instance ends with a failure of its unit, after which its thread
\* makes no other call.

\* A foreign thread makes its call of the C API
capi_call_first(t) ==
  /\ cpc[t] = "idle"
  /\ capi_call(t)

\* maxParallel is set to a value that is at least 1
SetMaxParallel_positive(newMax) ==
  /\ newMax >= 1
  /\ SetMaxParallel(newMax)

WaitNext ==
  \/ eval_async
  \/ eval(FALSE, TRUE, TRUE)
  \/ \E newMax \in 0..ExpressionMaxParallel : SetMaxParallel_positive(newMax)
  \/ getIdleInstance
  \/ Queue_global
  \/ enqueue
  \/ \E j \in JobletIds : workerThread(j)
  \/ \E j \in JobletIds : doit(j, TRUE)
  \/ \E j \in JobletIds : dequeue(j)
  \/ \E j \in JobletIds : handoff(j)
  \/ \E j \in JobletIds : release(j)
  \/ \E j \in JobletIds : release_notify(j)
  \/ \E j \in JobletIds : fetch_add(j)
  \/ \E j \in JobletIds : OnFinish(j)
  \/ \E t \in Threads : capi_call_first(t)
  \/ \E t \in Threads : waitIdleInstance_wait(t)
  \/ \E t \in Threads : waitIdleInstance_wake(t)
  \/ \E t \in Threads : waitIdleInstance(t)
  \/ \E t \in Threads : InstanceGuard_release(t, FALSE)
  \/ \E t \in Threads : InstanceGuard_return(t)

\* Every thread is scheduled and gets the mutex it asks for again and again
\* (the pool threads, the control thread in the loop of Worker::Queue, a
\* thread in a synchronous call), and every unit that runs returns; no wait
\* returns spuriously for sure
WaitFairness ==
  /\ SF_vars(PoolStep)
  /\ SF_vars(getIdleInstance \/ Queue_global \/ enqueue)
  /\ \A t \in Threads :
       /\ SF_vars(\/ waitIdleInstance_wait(t)
                  \/ InstanceGuard_release(t, FALSE)
                  \/ InstanceGuard_return(t))
       /\ WF_vars(waitIdleInstance(t))

WaitSpec == Init /\ [][WaitNext]_vars /\ WaitFairness

----------------------------------------------------------------------------
\* Calls of map and cwise with a thread count of 0, synchronous and
\* asynchronous, among asynchronous evals and maps under a load of MaxQueued
\* joblets

\* map or cwise is called with a thread count of 0
map_zero(async, args, cb) == map(async, 0, args, cb)

ZeroNext ==
  \/ \E async, args, cb \in BOOLEAN : map_zero(async, args, cb)
  \/ eval_async
  \/ \E threads \in 1..ExpressionMaxParallel : map_async(threads)
  \/ js_catch
  \/ getIdleInstance
  \/ Queue_global
  \/ enqueue
  \/ \E w \in Jobs : CallJS(w)
  \/ CallJS_delete
  \/ \E j \in JobletIds : workerThread(j)
  \/ \E j \in JobletIds, ok \in BOOLEAN : doit(j, ok)
  \/ \E j \in JobletIds : dequeue(j)
  \/ \E j \in JobletIds : handoff(j)
  \/ \E j \in JobletIds : release(j)
  \/ \E j \in JobletIds : release_notify(j)
  \/ \E j \in JobletIds : fetch_add(j)
  \/ \E j \in JobletIds : OnFinish(j)
  \/ \E t \in Threads : waitIdleInstance_wait(t)
  \/ \E t \in Threads : waitIdleInstance_wake(t)
  \/ \E t \in Threads : waitIdleInstance(t)
  \/ \E t \in Threads, ok \in BOOLEAN : InstanceGuard_release(t, ok)
  \/ \E t \in Threads : InstanceGuard_return(t)

ZeroSpec == Init /\ [][ZeroNext]_vars

----------------------------------------------------------------------------
\* The pool threads and the shutdown of the process (async.cc:11-37).  theEnd
\* is written by threadsDestructor without global_work_mutex; the pool threads
\* read it in the condition of the loop and, holding the mutex, in the
\* predicate of the wait and after it.

\* The pool threads (async.cc:36)
PoolThreads == 1..NumThreads

\* The number of joblets that the global queue holds at a time
MaxPending == 2

\* What the steps of this section leave alone
notShutdownVars == <<schedVars, incVars, capiVars, indexVars, mapVars, ndVars, parserVars>>

\* initAsyncWorkers (async.cc:34-37): the threads are started and the process
\* runs
ShutdownInit ==
  /\ Expression_Init
  /\ IncIdle
  /\ CapiIdle
  /\ IndexIdle
  /\ MapIdle
  /\ NdIdle
  /\ ParserIdle
  /\ wpc = [t \in PoolThreads |-> "while"]
  /\ global_work_mutex = 0
  /\ queued = 0
  /\ theEndFlag = FALSE
  /\ dpc = "run"
  /\ joinI = 0

\* The threads blocked in global_condition.wait
blockedThreads == {t \in PoolThreads : wpc[t] = "wait"}

\* global_condition.notify_one(): one blocked thread, if there is one, leaves
\* the wait and asks for the mutex again
global_notify_one ==
  IF blockedThreads = {}
  THEN {wpc}
  ELSE {[wpc EXCEPT ![u] = "relock"] : u \in blockedThreads}

\* global_condition.notify_all(): every blocked thread leaves the wait
global_notify_all == [t \in PoolThreads |-> IF wpc[t] = "wait" THEN "relock" ELSE wpc[t]]

\* GenericJoblet::enqueue (async.h:61-66) called by Worker::Queue on the
\* control thread while the process runs: the push with global_work_mutex
\* held, and, the mutex released, global_condition.notify_one()
Joblet_enqueue ==
  \/ /\ dpc = "run"
     /\ global_work_mutex = 0
     /\ queued < MaxPending
     /\ queued' = queued + 1
     /\ dpc' = "notify_one"
     /\ UNCHANGED <<wpc, global_work_mutex, theEndFlag, joinI, notShutdownVars>>
  \/ /\ dpc = "notify_one"
     /\ wpc' \in global_notify_one
     /\ dpc' = "run"
     /\ UNCHANGED <<global_work_mutex, queued, theEndFlag, joinI, notShutdownVars>>

\* while (!theEnd) (async.cc:21)
workerThread_while(t) ==
  /\ wpc[t] = "while"
  /\ wpc' = [wpc EXCEPT ![t] = IF theEndFlag THEN "returned" ELSE "lock"]
  /\ UNCHANGED <<global_work_mutex, queued, theEndFlag, dpc, joinI, notShutdownVars>>

\* std::unique_lock<std::mutex> lock(global_work_mutex) (async.cc:24), and
\* the lock taken again when the wait is left
workerThread_lock(t) ==
  /\ wpc[t] \in {"lock", "relock"}
  /\ global_work_mutex = 0
  /\ global_work_mutex' = t
  /\ wpc' = [wpc EXCEPT ![t] = "predicate"]
  /\ UNCHANGED <<queued, theEndFlag, dpc, joinI, notShutdownVars>>

\* global_condition.wait(lock, pred): pred is evaluated with the mutex held
\* (async.cc:25)
workerThread_predicate(t) ==
  /\ wpc[t] = "predicate"
  /\ wpc' = [wpc EXCEPT ![t] = IF queued # 0 \/ theEndFlag
                                THEN "if" ELSE "block"]
  /\ UNCHANGED <<global_work_mutex, queued, theEndFlag, dpc, joinI, notShutdownVars>>

\* global_condition.wait: the predicate was false; the mutex is released and
\* the thread blocks, in one atomic step
workerThread_wait(t) ==
  /\ wpc[t] = "block"
  /\ global_work_mutex' = 0
  /\ wpc' = [wpc EXCEPT ![t] = "wait"]
  /\ UNCHANGED <<queued, theEndFlag, dpc, joinI, notShutdownVars>>

\* global_condition.wait returns spuriously
workerThread_spurious(t) ==
  /\ wpc[t] = "wait"
  /\ wpc' = [wpc EXCEPT ![t] = "relock"]
  /\ UNCHANGED <<global_work_mutex, queued, theEndFlag, dpc, joinI, notShutdownVars>>

\* if (theEnd) return; w = front(); pop(); and the end of the block, which
\* releases the mutex (async.cc:26-29)
workerThread_pop(t) ==
  /\ wpc[t] = "if"
  /\ global_work_mutex' = 0
  /\ IF theEndFlag
     THEN /\ wpc' = [wpc EXCEPT ![t] = "returned"]
          /\ UNCHANGED queued
     ELSE /\ wpc' = [wpc EXCEPT ![t] = "OnExecute"]
          /\ queued' = queued - 1
  /\ UNCHANGED <<theEndFlag, dpc, joinI, notShutdownVars>>

\* w->OnExecute() (async.cc:30) without a hand-off
workerThread_OnExecute(t) ==
  /\ wpc[t] = "OnExecute"
  /\ wpc' = [wpc EXCEPT ![t] = "while"]
  /\ UNCHANGED <<global_work_mutex, queued, theEndFlag, dpc, joinI, notShutdownVars>>

\* w->OnExecute() that hands its instance to a joblet of the local queue:
\* w->enqueue() (async.h:132-140, 61-66): the push with global_work_mutex
\* held, and, the mutex released, global_condition.notify_one()
workerThread_handoff(t) ==
  \/ /\ wpc[t] = "OnExecute"
     /\ global_work_mutex = 0
     /\ queued < MaxPending
     /\ queued' = queued + 1
     /\ wpc' = [wpc EXCEPT ![t] = "notify_one"]
     /\ UNCHANGED <<global_work_mutex, theEndFlag, dpc, joinI, notShutdownVars>>
  \/ /\ wpc[t] = "notify_one"
     /\ wpc' \in {[c EXCEPT ![t] = "while"] : c \in global_notify_one}
     /\ UNCHANGED <<global_work_mutex, queued, theEndFlag, dpc, joinI, notShutdownVars>>

\* threadsDestructor, called at exit (async.cc:35): theEnd = true (async.cc:14)
threadsDestructor_theEnd ==
  /\ dpc = "run"
  /\ theEndFlag' = TRUE
  /\ dpc' = "notify_all"
  /\ UNCHANGED <<wpc, global_work_mutex, queued, joinI, notShutdownVars>>

\* threadsDestructor: global_condition.notify_all() (async.cc:15)
threadsDestructor_notify_all ==
  /\ dpc = "notify_all"
  /\ wpc' = global_notify_all
  /\ dpc' = "join"
  /\ UNCHANGED <<global_work_mutex, queued, theEndFlag, joinI, notShutdownVars>>

\* threadsDestructor: workers[i].join() (async.cc:17)
threadsDestructor_join ==
  /\ dpc = "join"
  /\ joinI < NumThreads
  /\ wpc[joinI + 1] = "returned"
  /\ joinI' = joinI + 1
  /\ dpc' = IF joinI + 1 = NumThreads THEN "exited" ELSE "join"
  /\ UNCHANGED <<wpc, global_work_mutex, queued, theEndFlag, notShutdownVars>>

ShutdownNext ==
  \/ Joblet_enqueue
  \/ \E t \in PoolThreads : workerThread_while(t)
  \/ \E t \in PoolThreads : workerThread_lock(t)
  \/ \E t \in PoolThreads : workerThread_predicate(t)
  \/ \E t \in PoolThreads : workerThread_wait(t)
  \/ \E t \in PoolThreads : workerThread_spurious(t)
  \/ \E t \in PoolThreads : workerThread_pop(t)
  \/ \E t \in PoolThreads : workerThread_OnExecute(t)
  \/ \E t \in PoolThreads : workerThread_handoff(t)
  \/ threadsDestructor_theEnd
  \/ threadsDestructor_notify_all
  \/ threadsDestructor_join

ShutdownSpec == ShutdownInit /\ [][ShutdownNext]_vars


----------------------------------------------------------------------------
\* The unit of work of Expression::map (expression.cc:365-389): the units of
\* one call, each with an instance of its own, run in any order

\* The values of the elements of the input array
Values == 0..1

\* expression.value() with the iterator variable set to x: a function of x
\* (expression.cc:385-386)
value(x) == x + 1

\* NapiArrayType<T>::New(env, lenTotal) (expression.cc:335): a zeroed array
NewArray(len) == [p \in 0..(len - 1) |-> 0]

\* std::min
min(a, b) == IF a < b THEN a ELSE b

\* A chunk length rounded down
lenPerJoblet_floor(len, n) == len \div n

\* A chunk length one element too long
lenPerJoblet_plus1(len, n) == (len + n) \div n

\* integer division ceiling: (lenTotal + job.joblets - 1) / job.joblets
\* (expression.cc:368, 890)
lenPerJoblet(len, n) == (len + n - 1) \div n

\* in_ptr = input + id * lenPerJoblet (expression.cc:380-381, 958, 974)
SliceBegin(id, len, n) == id * lenPerJoblet(len, n)

\* An end of slice that is not clipped to the length of the array
SliceEnd_unclipped(id, len, n) == (id + 1) * lenPerJoblet(len, n)

\* in_end = input + std::min(lenTotal, (id + 1) * lenPerJoblet)
\* (expression.cc:382, 957, 973)
SliceEnd(id, len, n) == min(len, (id + 1) * lenPerJoblet(len, n))

\* The element at position p of array a (reading past the end gives
\* whatever is there: 0 in the model)
ElementAt(a, p) == IF p \in DOMAIN a THEN a[p] ELSE 0

\* A call of map with an array of any length and any number of joblets
\* that passed the check of expression.cc:297-306
MapInit ==
  /\ Expression_Init
  /\ IncIdle
  /\ CapiIdle
  /\ IndexIdle
  /\ ShutdownIdle
  /\ NdIdle
  /\ ParserIdle
  /\ lenTotal \in 0..MaxLen
  /\ joblets \in 1..MaxMapJoblets
  /\ input \in [0..(lenTotal - 1) -> Values]
  /\ output = NewArray(lenTotal)
  /\ writers = {}
  /\ in_ptr = [id \in 0..(joblets - 1) |-> 0]
  /\ unit = [id \in 0..(joblets - 1) |-> "new"]

\* job.main, up to the loop (expression.cc:376-383)
map_main(id) ==
  /\ id \in DOMAIN unit
  /\ unit[id] = "new"
  /\ in_ptr' = [in_ptr EXCEPT ![id] = SliceBegin(id, lenTotal, joblets)]
  /\ unit' = [unit EXCEPT ![id] = "loop"]
  /\ UNCHANGED <<lenTotal, joblets, input, output, writers, schedVars, incVars, capiVars, indexVars, shutdownVars, ndVars, parserVars>>

\* job.main, one iteration of the loop or its end (expression.cc:384-388)
map_main_loop(id) ==
  /\ id \in DOMAIN unit
  /\ unit[id] = "loop"
  /\ IF in_ptr[id] < SliceEnd(id, lenTotal, joblets)
     THEN /\ output' = IF in_ptr[id] \in DOMAIN output
                       THEN [output EXCEPT ![in_ptr[id]] = value(ElementAt(input, in_ptr[id]))]
                       ELSE output
          /\ writers' = writers \cup {<<in_ptr[id], id>>}
          /\ in_ptr' = [in_ptr EXCEPT ![id] = @ + 1]
          /\ UNCHANGED unit
     ELSE /\ unit' = [unit EXCEPT ![id] = "returned"]
          /\ UNCHANGED <<output, writers, in_ptr>>
  /\ UNCHANGED <<lenTotal, joblets, input, schedVars, incVars, capiVars, indexVars, shutdownVars, ndVars, parserVars>>

MapNext ==
  \/ \E id \in 0..(MaxMapJoblets - 1) : map_main(id)
  \/ \E id \in 0..(MaxMapJoblets - 1) : map_main_loop(id)

MapSpec == MapInit /\ [][MapNext]_vars

\* The same loop run to its end from position p: the output of a unit
RECURSIVE main_run(_, _, _)
main_run(out, p, end) ==
  IF p < end
  THEN main_run([out EXCEPT ![p] = value(ElementAt(input, p))], p + 1, end)
  ELSE out

\* The output of the same call with 1 joblet
Map1 ==
  main_run(NewArray(lenTotal), SliceBegin(0, lenTotal, 1), SliceEnd(0, lenTotal, 1))

----------------------------------------------------------------------------
\* A strided array argument of Expression::cwise: its validation
\* (ndarray.cc:73-103) and its traversal by one unit (expression.cc:937-995)

\* The sum of f[d] * g[d] over the dimensions 1..d
RECURSIVE DotProduct(_, _, _)
DotProduct(f, g, d) == IF d = 0 THEN 0 ELSE f[d] * g[d] + DotProduct(f, g, d - 1)

\* StridedLength (ndarray.h:56-60): the product of the extents
RECURSIVE StridedLength(_, _)
StridedLength(shp, d) == IF d = 0 THEN 1 ELSE shp[d] * StridedLength(shp, d - 1)

\* rowMajorStride (expression.cc:893-900)
RECURSIVE rowMajorStride(_)
rowMajorStride(d) == IF d = dims THEN 1 ELSE rowMajorStride(d + 1) * shape[d + 1]

\* ImportStridedArray: lastElement (ndarray.cc:94-98)
lastElement == offset + DotProduct([d \in 1..dims |-> shape[d] - 1], stride, dims)

\* ImportStridedArray: the array is accepted (ndarray.cc:95-100)
Accepted ==
  /\ \A d \in 1..dims : shape[d] >= 1
  /\ lastElement >= 0
  /\ lastElement < length

\* GetStridedIndex (ndarray.cc:117-140) for the strides rowMajorStride, which
\* are positive and already in the order of the sort (the largest first):
\* the subscripts of the dimensions d.. of the linear offset
RECURSIVE GetStridedIndex(_, _, _)
GetStridedIndex(linear, idx, d) ==
  IF d > dims
  THEN idx
  ELSE GetStridedIndex(linear - (linear \div rowMajorStride(d)) * rowMajorStride(d),
                       [idx EXCEPT ![d] = linear \div rowMajorStride(d)], d + 1)

\* GetLinearOffset (ndarray.cc:106-114)
GetLinearOffset(idx) == DotProduct(idx, stride, dims)

\* An increment of the last axis that wraps without a carry
IncrementStridedIndex_nocarry(idx, d) ==
  IF d = 0 THEN idx ELSE [idx EXCEPT ![d] = (@ + 1) % shape[d]]

\* IncrementStridedIndex, the subscripts (ndarray.h:39-43)
RECURSIVE IncrementStridedIndex(_, _)
IncrementStridedIndex(idx, d) ==
  IF d = 0
  THEN idx
  ELSE IF idx[d] + 1 < shape[d]
       THEN [idx EXCEPT ![d] = @ + 1]
       ELSE IncrementStridedIndex([idx EXCEPT ![d] = 0], d - 1)

\* data_end = data_ptr + (shape[dims - 1] - index[dims - 1]) * stride[dims - 1]
\* (expression.cc:951, 970, 986)
DataEnd(ptr, idx) == ptr + (shape[dims] - idx[dims]) * stride[dims]

\* A call of cwise with one strided array of any description
NdInit ==
  /\ Expression_Init
  /\ IncIdle
  /\ CapiIdle
  /\ IndexIdle
  /\ ShutdownIdle
  /\ MapIdle
  /\ ParserIdle
  /\ dims \in 1..MaxDims
  /\ shape \in [1..dims -> 0..MaxShape]
  /\ stride \in [1..dims -> (0 - MaxStride)..MaxStride]
  /\ offset \in (0 - 1)..MaxOffset
  /\ length \in 1..MaxBuffer
  /\ ndJoblets \in 1..ExpressionMaxParallel
  /\ ndId = 0
  /\ index = [d \in 1..dims |-> 0]
  /\ data_ptr = 0
  /\ data_end = 0
  /\ output_ptr = 0
  /\ reads = {}
  /\ ndpc = "cwise"

\* cwise: ImportStridedArray(value, ...) accepts the array or throws
\* (expression.cc:807, ndarray.cc:73-103)
ImportStridedArray ==
  /\ ndpc = "cwise"
  /\ ndpc' = IF Accepted THEN "imported" ELSE "TypeError"
  /\ UNCHANGED <<dims, shape, stride, offset, length, ndJoblets, ndId, index,
                 data_ptr, data_end, output_ptr, reads, schedVars, incVars, capiVars, indexVars, shutdownVars, mapVars, parserVars>>

\* job.main of cwise for unit i, up to the loop (expression.cc:937-952, 973-974)
cwise_main(i) ==
  /\ ndpc = "imported"
  /\ i < ndJoblets
  /\ ndId' = i
  /\ index' = GetStridedIndex(i * lenPerJoblet(StridedLength(shape, dims), ndJoblets),
                              index, 1)
  /\ data_ptr' = offset + GetLinearOffset(index')
  /\ data_end' = DataEnd(data_ptr', index')
  /\ output_ptr' = SliceBegin(i, StridedLength(shape, dims), ndJoblets)
  /\ ndpc' = "loop"
  /\ UNCHANGED <<dims, shape, stride, offset, length, ndJoblets, reads,
                 schedVars, incVars, capiVars, indexVars, shutdownVars, mapVars, parserVars>>

\* job.main of cwise, one iteration of the loop or its end
\* (expression.cc:960-976, 980-995).  The read of a position outside the
\* buffer (expression.cc:967, 986) is undefined behaviour: it yields some
\* value and the loop goes on, or it ends the process with SIGSEGV.
cwise_main_loop ==
  /\ ndpc = "loop"
  /\ IF output_ptr < SliceEnd(ndId, StridedLength(shape, dims), ndJoblets)
     THEN \/ /\ reads' = reads \cup {<<output_ptr, data_ptr>>}
             /\ IF data_ptr + stride[dims] = data_end
                THEN /\ index' = IncrementStridedIndex([index EXCEPT ![dims] = shape[dims] - 1], dims)
                     /\ data_ptr' = offset + DotProduct(index', stride, dims)
                     /\ data_end' = DataEnd(data_ptr', index')
                ELSE /\ data_ptr' = data_ptr + stride[dims]
                     /\ UNCHANGED <<index, data_end>>
             /\ output_ptr' = output_ptr + 1
             /\ UNCHANGED ndpc
          \/ /\ data_ptr < 0 \/ data_ptr >= length
             /\ ndpc' = "SIGSEGV"
             /\ UNCHANGED <<index, data_ptr, data_end, output_ptr, reads>>
     ELSE /\ ndpc' = "returned"
          /\ UNCHANGED <<index, data_ptr, data_end, output_ptr, reads>>
  /\ UNCHANGED <<dims, shape, stride, offset, length, ndJoblets, ndId, schedVars, incVars, capiVars, indexVars, shutdownVars,
                 mapVars, parserVars>>

NdNext ==
  \/ ImportStridedArray
  \/ \E i \in 0..(ExpressionMaxParallel - 1) : cwise_main(i)
  \/ cwise_main_loop

NdSpec == NdInit /\ [][NdNext]_vars

----------------------------------------------------------------------------
\* IncrementStridedIndex (ndarray.h:29-47) as a function of its arguments:
\* it is called again and again from the index 0, ..., 0, for every shape
\* and every stride vector

\* The width of size_t and of a pointer, in bits
SizeBits == 16

\* Arithmetic on size_t and on uint8_t* is modulo 2^SizeBits; the int32_t
\* operand of a product with a size_t is converted to size_t first
ToSize(x) == x % (2 ^ SizeBits)

\* The size of an element of a typed array, by napi_typedarray_type
\* (expression.cc:680-689): int8, uint8, uint8_clamped (0: the type is not
\* supported), int16, uint16, int32, uint32, float32, float64
NapiElementSize == [type \in 0..8 |-> <<1, 1, 0, 2, 2, 4, 4, 4, 8>>[type + 1]]

\* IncrementStridedIndex, the pointer (ndarray.h:45-46): *ptr = start; for
\* (d = dims - 1; d >= 0; d--) *ptr += index[d] * stride[d] * elementSize
RECURSIVE IncrementStridedIndex_ptr(_, _, _)
IncrementStridedIndex_ptr(p, idx, d) ==
  IF d = 0
  THEN p
  ELSE IncrementStridedIndex_ptr(
         ToSize(p + ToSize(ToSize(idx[d] * ToSize(stride[d])) * elementSize)),
         idx, d - 1)

\* An array of any shape and strides and of any type of element, whose first
\* element is at the lowest address or in the middle of the address space,
\* with the index 0, ..., 0
IncInit ==
  /\ Expression_Init
  /\ CapiIdle
  /\ IndexIdle
  /\ ShutdownIdle
  /\ MapIdle
  /\ ParserIdle
  /\ dims \in 1..MaxDims
  /\ shape \in [1..dims -> 1..MaxShape]
  /\ stride \in [1..dims -> (0 - MaxStride)..MaxStride]
  /\ elementSize \in {NapiElementSize[type] : type \in DOMAIN NapiElementSize}
  /\ start \in {0, 2 ^ (SizeBits - 1)}
  /\ index = [d \in 1..dims |-> 0]
  /\ data_ptr = start
  /\ offset = 0
  /\ length = 0
  /\ ndJoblets = 0
  /\ ndId = 0
  /\ data_end = 0
  /\ output_ptr = 0
  /\ reads = {}
  /\ ndpc = "IncrementStridedIndex"

\* IncrementStridedIndex(index, start, &data_ptr, elementSize, dims, shape,
\* stride) (ndarray.h:29-47)
IncrementStridedIndex_call ==
  /\ ndpc = "IncrementStridedIndex"
  /\ index' = IncrementStridedIndex(index, dims)
  /\ data_ptr' = IncrementStridedIndex_ptr(start, index', dims)
  /\ UNCHANGED <<dims, shape, stride, offset, length, ndJoblets, ndId, data_end,
                 output_ptr, reads, ndpc, schedVars, incVars, capiVars,
                 indexVars, shutdownVars, mapVars, parserVars>>

IncNext == IncrementStridedIndex_call

IncSpec == IncInit /\ [][IncNext]_vars

----------------------------------------------------------------------------
\* GetStridedIndex and GetLinearOffset (ndarray.cc:105-140) as functions of
\* their arguments, for the dense stride vectors of a shape

\* What the steps of this section leave alone
notIndexVars == <<schedVars, incVars, capiVars, shutdownVars, mapVars, ndVars, parserVars>>

Abs(x) == IF x < 0 THEN -x ELSE x

\* The orders in which the axes 1..d can be nested
AxisOrders(d) == {p \in [1..d -> 1..d] : \A a, b \in 1..d : a # b => p[a] # p[b]}

\* The dense stride vectors of a shape: for some nesting of the axes, from
\* the innermost outwards, the magnitude of a stride is 1 for the innermost
\* axis and the extent times the stride of the axis inside it for the
\* others; the sign of each stride is free
DenseStrides(d, shp) ==
  {st \in [1..d -> {s \in (-StridedLength(shp, d))..StridedLength(shp, d) : s # 0}] :
     \E p \in AxisOrders(d) :
       /\ Abs(st[p[1]]) = 1
       /\ \A i \in 2..d : Abs(st[p[i]]) = Abs(st[p[i - 1]]) * shp[p[i - 1]]}

\* The row-major strides of a shape (expression.cc:893-900)
RECURSIVE rowMajorOf(_, _, _)
rowMajorOf(shp, d, a) == IF a = d THEN 1 ELSE rowMajorOf(shp, d, a + 1) * shp[a + 1]

\* int64_t k = linear / s (ndarray.cc:133): the division of C++ truncates
TruncDiv(a, b) ==
  IF (a < 0) = (b < 0) THEN Abs(a) \div Abs(b) ELSE -(Abs(a) \div Abs(b))

\* std::sort(order, [&stride](a, b) { return stride[a] > stride[b]; })
\* (ndarray.cc:128): the axes by falling stride, compared as signed numbers;
\* for the few axes of an array the sort is an insertion sort, which leaves
\* axes of equal stride in the order of their numbers
SortedOrder(st, d) ==
  [p \in 1..d |->
     CHOOSE a \in 1..d :
       Cardinality({b \in 1..d : st[b] > st[a] \/ (st[b] = st[a] /\ b < a)}) = p - 1]

\* The loop of GetStridedIndex (ndarray.cc:130-139) from position p of order
RECURSIVE GetStridedIndex_loop(_, _, _, _, _, _)
GetStridedIndex_loop(linear, idx, order, p, shp, st) ==
  IF p > Len(order)
  THEN idx
  ELSE LET i == order[p]
           s == st[i]
           k == TruncDiv(linear, s)
       IN  GetStridedIndex_loop(linear - k * s,
                                [idx EXCEPT ![i] = IF s < 0 THEN shp[i] - 1 + k ELSE k],
                                order, p + 1, shp, st)

\* GetStridedIndex (ndarray.cc:117-140)
GetStridedIndex_any(off, idx, d, shp, st) ==
  GetStridedIndex_loop(off, idx, SortedOrder(st, d), 1, shp, st)

\* A call of GetStridedIndex with a shape, a dense stride vector of that
\* shape and a linear offset below the element count
IndexInit ==
  /\ Expression_Init
  /\ IncIdle
  /\ CapiIdle
  /\ ShutdownIdle
  /\ MapIdle
  /\ NdIdle
  /\ ParserIdle
  /\ gdims \in 1..MaxDims
  /\ gshape \in [1..gdims -> 1..MaxShape]
  /\ gstride \in DenseStrides(gdims, gshape)
  /\ goffset \in 0..(StridedLength(gshape, gdims) - 1)
  /\ gindex = [d \in 1..gdims |-> 0]
  /\ glinear = 0
  /\ gpc = "GetStridedIndex"

GetStridedIndex_call ==
  /\ gpc = "GetStridedIndex"
  /\ gindex' = GetStridedIndex_any(goffset, gindex, gdims, gshape, gstride)
  /\ gpc' = "GetLinearOffset"
  /\ UNCHANGED <<gdims, gshape, gstride, goffset, glinear, notIndexVars>>

\* GetLinearOffset (ndarray.cc:106-114) with the same strides
GetLinearOffset_call ==
  /\ gpc = "GetLinearOffset"
  /\ glinear' = DotProduct(gindex, gstride, gdims)
  /\ gpc' = "returned"
  /\ UNCHANGED <<gdims, gshape, gstride, goffset, gindex, notIndexVars>>

IndexNext ==
  \/ GetStridedIndex_call
  \/ GetLinearOffset_call

IndexSpec == IndexInit /\ [][IndexNext]_vars

----------------------------------------------------------------------------
\* The C API functions map and reduce (expression.cc:394-432, 548-591) as
\* functions of the names declared by the Expression and of their arguments

\* What the steps of this section leave alone
notCapiVars == <<schedVars, incVars, shutdownVars, indexVars, mapVars, ndVars, parserVars>>

\* The scalars an Expression can declare, in the order of variableNames
\* (expression.cc:48-76)
ScalarNames == {<<>>, <<"a">>, <<"b">>, <<"a", "b">>, <<"b", "a">>}

\* The vectors an Expression can declare (expression.cc:78-96)
VectorNames == {<<>>, <<"v">>}

\* The names a caller can pass: a scalar, a vector, or a name that the
\* Expression does not declare
ArgNames == {"a", "b", "v", "x"}

\* The number of scalars that are left after n of them were named by the
\* caller: the values the caller passes in _scalars
Remaining(nv, n) == IF nv > n THEN nv - n ELSE 0

\* An Expression and a call of map or of reduce on it
CapiInit ==
  /\ Expression_Init
  /\ IncIdle
  /\ ShutdownIdle
  /\ IndexIdle
  /\ MapIdle
  /\ NdIdle
  /\ ParserIdle
  /\ \E sn \in ScalarNames, vn \in VectorNames :
       /\ variableNames = sn \o vn
       /\ nvars = Len(sn)
  /\ capi \in {"map", "reduce"}
  /\ iterator_name \in ArgNames
  /\ accumulator \in IF capi = "map" THEN {""} ELSE ArgNames
  /\ iterator_len \in 1..MaxLen
  /\ scalars_len = Remaining(nvars, IF capi = "map" THEN 1 ELSE 2)
  /\ status = "none"
  /\ written = 0

\* The scalars i < nvars of the first loop that take the branch of the
\* iterator, of the accumulator, and the else branch
\* (expression.cc:411-417, 565-573)
IteratorAt(it) == {i \in 1..nvars : variableNames[i] = it}
AccumulatorAt(it, acc) ==
  {i \in 1..nvars : variableNames[i] # it /\ variableNames[i] = acc}
ScalarAt(it, acc) ==
  {i \in 1..nvars : variableNames[i] # it /\ variableNames[i] # acc}

\* The outcomes of the first loop, which reads scalars[scalars_idx++] once
\* for every scalar of the else branch: a read past the end of the values
\* passed by the caller is undefined behaviour, which ends the process or
\* yields some value, also when the caller passed no value at all (a read
\* through nullptr ends the process, a read through a pointer to no value
\* can yield one)
FirstLoop(n, len) ==
  IF n <= len
  THEN {"read"}
  ELSE {"read", "SIGSEGV"}

\* capi_map (expression.cc:394-432)
capi_map ==
  /\ capi = "map"
  /\ status = "none"
  /\ \E loop \in FirstLoop(Cardinality(ScalarAt(iterator_name, "")), scalars_len) :
       IF loop = "SIGSEGV"
       THEN status' = "SIGSEGV" /\ written' = 0
       ELSE IF IteratorAt(iterator_name) = {}
            THEN status' = "exprtk_invalid_argument" /\ written' = 0
            ELSE status' = "exprtk_ok" /\ written' = iterator_len
  /\ UNCHANGED <<variableNames, nvars, capi, iterator_name, accumulator,
                 iterator_len, scalars_len, notCapiVars>>

\* capi_reduce (expression.cc:548-591)
capi_reduce ==
  /\ capi = "reduce"
  /\ status = "none"
  /\ \E loop \in FirstLoop(Cardinality(ScalarAt(iterator_name, accumulator)),
                           scalars_len) :
       IF loop = "SIGSEGV"
       THEN status' = "SIGSEGV" /\ written' = 0
       ELSE IF IteratorAt(iterator_name) = {}
               \/ AccumulatorAt(iterator_name, accumulator) = {}
            THEN status' = "exprtk_invalid_argument" /\ written' = 0
            ELSE status' = "exprtk_ok" /\ written' = 1
  /\ UNCHANGED <<variableNames, nvars, capi, iterator_name, accumulator,
                 iterator_len, scalars_len, notCapiVars>>

CapiNext ==
  \/ capi_map
  \/ capi_reduce

CapiSpec == CapiInit /\ [][CapiNext]_vars

----------------------------------------------------------------------------
\* The compilations of several Expressions of one data type: parser() is one
\* static object per data type (expression.h:180-184), parserMutex is a member
\* of each Expression (expression.h:185)

Expressions == 1..NumExpressions
\* Thread 0 is the main thread, the others call the C API
ParserThreadIds == 0..ParserThreads
Slots == 0..(ExpressionMaxParallel - 1)

\* The threads inside parser().compile (expression.cc:109, 170)
Compiling == {t \in ParserThreadIds : tpc[t] \in {"Expression: compile", "compile"}}

\* No Expression is constructed yet
ParserInit ==
  /\ Expression_Init
  /\ IncIdle
  /\ CapiIdle
  /\ IndexIdle
  /\ ShutdownIdle
  /\ MapIdle
  /\ NdIdle
  /\ isInitOf = [e \in Expressions |-> [i \in Slots |-> FALSE]]
  /\ idleOf = [e \in Expressions |-> <<>>]
  /\ asyncLockOf = [e \in Expressions |-> {}]
  /\ parserMutex = [e \in Expressions |-> {}]
  /\ tpc = [t \in ParserThreadIds |-> "idle"]
  /\ texpr = [t \in ParserThreadIds |-> 1]
  /\ tinst = [t \in ParserThreadIds |-> 0]

\* new Expression in the main thread, up to the call of parser().compile
\* under the parserMutex of the new object (expression.cc:108-109)
Expression_compile(e) ==
  /\ tpc[0] = "idle"
  /\ ~isInitOf[e][0]
  /\ parserMutex[e] = {}
  /\ parserMutex' = [parserMutex EXCEPT ![e] = {0}]
  /\ tpc' = [tpc EXCEPT ![0] = "Expression: compile"]
  /\ texpr' = [texpr EXCEPT ![0] = e]
  /\ UNCHANGED <<isInitOf, idleOf, asyncLockOf, tinst, schedVars, incVars, capiVars, indexVars, shutdownVars, mapVars, ndVars>>

\* new Expression, after parser().compile (expression.cc:120-128)
Expression_return ==
  /\ tpc[0] = "Expression: compile"
  /\ isInitOf' = [isInitOf EXCEPT ![texpr[0]][0] = TRUE]
  /\ idleOf' = [idleOf EXCEPT ![texpr[0]] = [i \in 1..ExpressionMaxParallel |-> i - 1]]
  /\ parserMutex' = [parserMutex EXCEPT ![texpr[0]] = {}]
  /\ tpc' = [tpc EXCEPT ![0] = "idle"]
  /\ UNCHANGED <<asyncLockOf, texpr, tinst, schedVars, incVars, capiVars, indexVars, shutdownVars, mapVars, ndVars>>

\* waitIdleInstance (expression.h:309-317) or getIdleInstance
\* (expression.h:292-299) of Expression e, up to the call of compileInstance
parser_waitIdleInstance(t, e) ==
  /\ tpc[t] = "idle"
  /\ isInitOf[e][0]
  /\ asyncLockOf[e] = {}
  /\ idleOf[e] # <<>>
  /\ asyncLockOf' = [asyncLockOf EXCEPT ![e] = {t}]
  /\ idleOf' = [idleOf EXCEPT ![e] = pop_front(@)]
  /\ texpr' = [texpr EXCEPT ![t] = e]
  /\ tinst' = [tinst EXCEPT ![t] = Head(idleOf[e])]
  /\ tpc' = [tpc EXCEPT ![t] = IF isInitOf[e][Head(idleOf[e])]
                               THEN "return" ELSE "compileInstance"]
  /\ UNCHANGED <<isInitOf, parserMutex, schedVars, incVars, capiVars, indexVars, shutdownVars, mapVars, ndVars>>

\* compileInstance up to the call of parser().compile (expression.cc:154-170)
parser_compileInstance(t) ==
  /\ tpc[t] = "compileInstance"
  /\ parserMutex[texpr[t]] = {}
  /\ isInitOf' = [isInitOf EXCEPT ![texpr[t]][tinst[t]] = TRUE]
  /\ parserMutex' = [parserMutex EXCEPT ![texpr[t]] = {t}]
  /\ tpc' = [tpc EXCEPT ![t] = "compile"]
  /\ UNCHANGED <<idleOf, asyncLockOf, texpr, tinst, schedVars, incVars, capiVars, indexVars, shutdownVars, mapVars, ndVars>>

\* parser().compile returns and compileInstance with it (expression.cc:170-171)
parser_compile(t) ==
  /\ tpc[t] = "compile"
  /\ parserMutex' = [parserMutex EXCEPT ![texpr[t]] = {}]
  /\ tpc' = [tpc EXCEPT ![t] = "return"]
  /\ UNCHANGED <<isInitOf, idleOf, asyncLockOf, texpr, tinst, schedVars, incVars, capiVars, indexVars, shutdownVars, mapVars, ndVars>>

\* waitIdleInstance returns the instance (expression.h:316-317)
parser_waitIdleInstance_return(t) ==
  /\ tpc[t] = "return"
  /\ asyncLockOf' = [asyncLockOf EXCEPT ![texpr[t]] = {}]
  /\ tpc' = [tpc EXCEPT ![t] = "holding"]
  /\ UNCHANGED <<isInitOf, idleOf, parserMutex, texpr, tinst, schedVars, incVars, capiVars, indexVars, shutdownVars, mapVars, ndVars>>

\* releaseIdleInstance (expression.h:301-307)
parser_releaseIdleInstance(t) ==
  /\ tpc[t] = "holding"
  /\ asyncLockOf[texpr[t]] = {}
  /\ idleOf' = [idleOf EXCEPT ![texpr[t]] = <<tinst[t]>> \o @]
  /\ tpc' = [tpc EXCEPT ![t] = "idle"]
  /\ UNCHANGED <<isInitOf, asyncLockOf, parserMutex, texpr, tinst, schedVars, incVars, capiVars, indexVars, shutdownVars, mapVars, ndVars>>

ParserNext ==
  \/ \E e \in Expressions : Expression_compile(e)
  \/ Expression_return
  \/ \E t \in ParserThreadIds, e \in Expressions : parser_waitIdleInstance(t, e)
  \/ \E t \in ParserThreadIds : parser_compileInstance(t)
  \/ \E t \in ParserThreadIds : parser_compile(t)
  \/ \E t \in ParserThreadIds : parser_waitIdleInstance_return(t)
  \/ \E t \in ParserThreadIds : parser_releaseIdleInstance(t)

ParserSpec == ParserInit /\ [][ParserNext]_vars

----------------------------------------------------------------------------
\* Properties

\* All the units of the map call have returned
MapDone == joblets > 0 /\ \A id \in DOMAIN unit : unit[id] = "returned"

\* The positions written by unit id
WrittenBy(id) == {w[1] : w \in {x \in writers : x[2] = id}}

\* C11: a map call split into N joblets (1 <= N) over an array of any length
\* L >= 0 leaves, when all its units have returned in whatever order they
\* ran, the same output array as the same call with 1 joblet; a unit whose
\* slice is empty (L < N) returns without writing anything.
C11_SplitSameAsOne ==
  /\ MapDone => output = Map1
  /\ \A id \in DOMAIN unit :
       (unit[id] = "returned" /\ id >= lenTotal) => WrittenBy(id) = {}

\* C11 witness: a call with more joblets than elements has returned, and
\* the output is not the array it started with
C11_Witness ==
  /\ MapDone
  /\ lenTotal > 0
  /\ joblets > lenTotal
  /\ output # NewArray(lenTotal)

\* C12 (as stated): the unit with index id processes exactly the slice
\* [id*len/joblets, (id+1)*len/joblets) of the traversal.
C12_FloorSlice ==
  \A id \in DOMAIN unit :
    unit[id] = "returned" =>
      WrittenBy(id) = {p \in 0..(lenTotal + MaxLen) :
                         /\ (id * lenTotal) \div joblets <= p
                         /\ p < ((id + 1) * lenTotal) \div joblets}

\* The smallest c with c * n >= len
CeilDiv(len, n) == CHOOSE c \in 0..len : c * n >= len /\ \A b \in 0..len : b * n >= len => c <= b

\* C12 (amended): with c the length divided by the number of joblets, rounded
\* up, the unit with index id processes exactly the slice
\* [id*c, min(len, (id+1)*c)), which is empty when id*c >= len.
C12_CeilSlice ==
  \A id \in DOMAIN unit :
    unit[id] = "returned" =>
      WrittenBy(id) = {p \in 0..(lenTotal + MaxLen) :
                         /\ id * CeilDiv(lenTotal, joblets) <= p
                         /\ p < (id + 1) * CeilDiv(lenTotal, joblets)
                         /\ p < lenTotal}

\* C12 witness: the units of a call whose length is not a multiple of the
\* number of joblets have returned
C12_Witness ==
  /\ MapDone
  /\ joblets > 1
  /\ lenTotal > joblets
  /\ lenTotal % joblets # 0

\* C13: the positions written by the units of one job are pairwise disjoint,
\* no unit touches a position >= len, and when all the units have returned
\* every position of [0, len) has been written by exactly one unit.
C13_DisjointCover ==
  /\ \A w \in writers : 0 <= w[1] /\ w[1] < lenTotal
  /\ \A v, w \in writers : v[1] = w[1] => v[2] = w[2]
  /\ MapDone => {w[1] : w \in writers} = 0..(lenTotal - 1)

\* C13 witness: three units have returned, each having written a position
C13_Witness ==
  /\ MapDone
  /\ joblets = 3
  /\ \A id \in DOMAIN unit : WrittenBy(id) # {}

\* The joblets and the threads an instance is bound to: a joblet that has
\* been given the instance, a thread whose guard has acquired it and not yet
\* released it, and Worker::Queue between getIdleInstance and the push of
\* the joblet that is given it
Holders(i) ==
  {<<"joblet", j>> : j \in {k \in JobletIds : instance[k] = i}}
    \cup {<<"thread", t>> : t \in {u \in Threads : cpc[u] = "run" /\ cinstance[u] = i}}
    \cup {<<"Queue", w>> : w \in {v \in Jobs : v = mjob /\ queue_i = i}}

\* The instances of the idle list
IdleSet == {instancesIdle[k] : k \in 1..Len(instancesIdle)}

\* C1 (as stated): in every reachable state active_count <= max_parallel,
\* also when set_max_parallel lowers the ceiling while instances are active.
C1_ActiveWithinCeiling == currentActive <= maxParallel

\* C1 (amended): active_count never exceeds the number of instances, and it
\* grows only by one, in an acquisition whose check found it below the ceiling
\* (the value its predicate read when a thread is inside waitIdleInstance,
\* else maxParallel);
\* so submission, completion, hand-off and acquisition keep
\* active_count <= max_parallel, and only a set_max_parallel that lowers the
\* ceiling can leave active_count above it.
C1_AcquireBelowCeiling ==
  /\ [](currentActive <= ExpressionMaxParallel)
  /\ [][currentActive' > currentActive =>
          /\ currentActive' = currentActive + 1
          /\ currentActive < (IF asyncLock # {} THEN predMax ELSE maxParallel)]_vars
  /\ [][(currentActive <= maxParallel /\ currentActive' > maxParallel') =>
          maxParallel' < maxParallel \/ asyncLock # {}]_vars

\* C1 witness: the ceiling, lowered below the number of instances, has
\* throttled an acquisition: a joblet is parked although an instance is idle
C1_Witness ==
  /\ maxParallel < ExpressionMaxParallel
  /\ currentActive = maxParallel
  /\ currentActive > 0
  /\ instancesIdle # <<>>
  /\ work_queue # <<>>

\* C2: no instance is bound to two holders (queued or running joblets,
\* synchronous callers) at a time, an idle instance has no holder, a queued
\* or running joblet has an instance, and a joblet taken from the pending
\* queue gets its instance from a joblet whose unit of work has returned.
C2_OneHolderPerInstance ==
  /\ \A i \in Instances :
       /\ Cardinality(Holders(i)) <= 1
       /\ (i \in IdleSet => Holders(i) = {})
  /\ \A j \in JobletIds :
       /\ (jpc[j] \in {"global", "exec", "ran", "hand", "rel"} <=> instance[j] # nullptr)
       /\ (jpc[j] = "hand" <=> next[j] # <<>>)
       /\ (jpc[j] = "taken" <=>
             \E g \in JobletIds : jpc[g] = "hand" /\ next[g] = j)
  /\ \A t \in Threads :
       cpc[t] \in {"run", "notify", "notify: failed"} <=> cinstance[t] # nullptr
  /\ mpc = "Queue_global" <=> queue_i # nullptr
  /\ mpc = "Queue_global" => jpc[<<mjob, mk>>] = "new"

\* C2 witness: every instance has a holder, one of them a synchronous caller,
\* and a finished joblet is about to hand its instance to a pending joblet
C2_Witness ==
  /\ \A i \in Instances : Holders(i) # {}
  /\ \E t \in Threads : cpc[t] = "run" /\ cinstance[t] # nullptr
  /\ \E j \in JobletIds : jpc[j] = "hand"

\* C3: the finisher of a job is invoked at most once, only by the one worker
\* whose increment brought jobletsReady to the number of joblets, and it has
\* been invoked exactly once when all the joblets of the job are done.
C3_FinisherOnce ==
  \A w \in Jobs :
    /\ finished[w] <= 1
    /\ Cardinality({j \in JobletsOf(w) : jpc[j] = "finish"}) + finished[w] <= 1
    /\ (\E j \in JobletsOf(w) : jpc[j] = "finish") => jobletsReady[w] = size[w]
    /\ finished[w] = 1 => jobletsReady[w] = size[w]
    /\ (size[w] > 0 /\ jobletsReady[w] = size[w]) =>
         Cardinality({j \in JobletsOf(w) : jpc[j] = "finish"}) + finished[w] = 1
    /\ (size[w] > 0 /\ \A j \in JobletsOf(w) : jpc[j] = "done") => finished[w] = 1

\* C3 witness: the finisher of a job of two joblets has been invoked
C3_Witness == \E w \in Jobs : size[w] = 2 /\ finished[w] = 1

\* A state in which no thread has a step to take unless a new call is made
Quiescent ==
  /\ mpc = "idle"
  /\ global_work_queue = <<>>
  /\ Executing = {}
  /\ callGate = {}
  /\ \A t \in Threads : cpc[t] \in {"idle", "exprtk_invalid_argument"}

\* C4 (as stated): submission never deadlocks; every submitted job has its
\* finisher invoked and every parked joblet is bound to an instance and run.
\* As a property of final states: when nothing is left to run (with a ceiling
\* of at least 1) no joblet is parked and no job is unfinished.
C4_NoStuckJob ==
  (Quiescent /\ maxParallel >= 1) =>
     /\ work_queue = <<>>
     /\ \A w \in Jobs : kind[w] = "none"

\* C5: the finisher of a job runs only after every joblet of the job has
\* finished its unit of work and has given up its instance.
C5_FinisherAfterAllUnits ==
  \A w \in Jobs :
    (finished[w] >= 1 \/ \E j \in JobletsOf(w) : jpc[j] = "finish") =>
       \A j \in JobletsOf(w) : jpc[j] \in {"finish", "done"} /\ instance[j] = nullptr

\* C5 witness: the finisher of a job of two joblets is about to run
C5_Witness ==
  \E w \in Jobs : size[w] = 2 /\ \E j \in JobletsOf(w) : jpc[j] = "finish"

\* C6: a synchronous multithreaded call gets past sem.lock() only when the
\* finisher has unlocked the semaphore (all units finished), and once the
\* finisher has unlocked it the submitter is not blocked: it is never waiting
\* on the condition while the semaphore is unlocked.
C6_GateOpensOnFinish ==
  /\ mpc = "syncret" => finished[mjob] = 1 /\ \A j \in JobletsOf(mjob) : jpc[j] = "done"
  /\ mpc = "semwait" => busy /\ finished[mjob] = 0
  /\ (mpc = "semlock" /\ finished[mjob] = 1) => ~busy
  /\ (mpc = "semlock" /\ finished[mjob] = 0) => busy
  /\ (mpc \in {"semlock", "semwait", "syncret"}) => kind[mjob] = "sync"

\* C6 witness: the finisher of a synchronous job of two joblets has unlocked
\* the semaphore and the submitter has got past sem.lock()
C6_Witness ==
  /\ mpc = "syncret"
  /\ busy
  /\ size[mjob] = 2
  /\ finished[mjob] = 1

\* The job whose outcome the JS code that is running has been given, with
\* its Worker still in memory: the job of the callback that CallJS has
\* called, or the synchronous job whose error Job::run has thrown; 0 when
\* there is none
Receiver ==
  IF mpc = "callback" THEN self
  ELSE IF mpc = "Error" THEN mjob
  ELSE 0

\* C7: a failed unit counts like any other: the finisher fires only when all
\* the units have run, failed ones included, and the receiver is given an
\* error exactly when at least one unit of the job failed.
C7_FailureIsJobFailure ==
  /\ \A w \in Jobs :
       /\ Len(errLog[w]) <= jobletsReady[w] + Cardinality({j \in JobletsOf(w) : jpc[j] \in {"ran", "hand", "rel", "notify", "count"}})
       /\ finished[w] = 1 => \A j \in JobletsOf(w) : jpc[j] = "done"
       /\ (err[w] # nullptr <=> errLog[w] # <<>>)
  /\ Receiver # 0 =>
       /\ delivered \in {"result", "error"}
       /\ (delivered = "error" <=> errLog[Receiver] # <<>>)
       /\ jobletsReady[Receiver] = size[Receiver]
       /\ finished[Receiver] = 1
  /\ mpc = "return" => delivered = "result"

\* C7 witness: one unit of a job of two units failed, the other one ran, and
\* the receiver is given the error
C7_Witness ==
  /\ Receiver # 0
  /\ size[Receiver] = 2
  /\ Len(errLog[Receiver]) = 1
  /\ delivered = "error"

\* C8 (as stated): when several units fail, the message delivered is the
\* one of the first failure recorded.
C8_FirstErrorDelivered ==
  (Receiver # 0 /\ delivered = "error") => deliveredErr = Head(errLog[Receiver])

\* C8 (amended): when several units fail, the message delivered is the one
\* of the failure recorded last: a later failing unit replaces the message.
C8_LastErrorDelivered ==
  (Receiver # 0 /\ delivered = "error") =>
     /\ errLog[Receiver] # <<>>
     /\ deliveredErr = errLog[Receiver][Len(errLog[Receiver])]

\* C8 witness: two units failed with different messages and an error is
\* delivered
C8_Witness ==
  /\ Receiver # 0
  /\ delivered = "error"
  /\ Len(errLog[Receiver]) = 2
  /\ errLog[Receiver][1] # errLog[Receiver][2]

\* C9 (as stated): set_max_parallel(n) fails exactly when n exceeds the
\* number of instances, leaving the ceiling unchanged, and sets the ceiling to
\* n otherwise, whether that lowers or raises it.
C9_SetWithinInstances ==
  [][\A n \in 0..(ExpressionMaxParallel + 1) :
       SetMaxParallel(n) =>
         IF n > ExpressionMaxParallel
         THEN mpc' = "TypeError" /\ maxParallel' = maxParallel
         ELSE mpc' = mpc /\ maxParallel' = n]_vars

\* C10: lowering max_parallel changes the ceiling only: the idle list, the
\* active count, the instances bound to joblets and callers, the queues and
\* the joblets are as before.
C10_LoweringFrame ==
  [][maxParallel' < maxParallel =>
       UNCHANGED <<maxActive, currentActive, instancesIdle, isInit, work_queue,
                   global_work_queue, workerVars, jobletVars, callerVars,
                   busy, outVars, histVars>>]_vars

\* C10 witness: the ceiling is below the number of active instances, and a
\* unit is running
C10_Witness ==
  /\ maxParallel < currentActive
  /\ \E j \in JobletIds : jpc[j] = "exec"

\* C14: for every strided array that call setup accepted, whatever its
\* strides and the number of units, the element read for the output position k
\* of cwise is the element at the row-major subscripts of k, that is the one
\* at offset + sum over d of ((k div rowMajorStride[d]) mod shape[d]) * stride[d]
C14_RowMajorRead ==
  \A r \in reads :
    r[2] = offset + DotProduct([d \in 1..dims |->
                                  (r[1] \div rowMajorStride(d)) % shape[d]],
                               stride, dims)

\* C15: every position read during the traversal of a strided array that call
\* setup accepted lies inside the buffer, in 0..(length - 1)
C15_ReadsInsideBuffer ==
  \A r \in reads : r[2] >= 0 /\ r[2] < length

\* C16: at most one compilation is in progress in the process at any time,
\* also for instances of different Expressions that share the parser
C16_OneCompilation == Cardinality(Compiling) <= 1

\* C17: the destructor of the Expression writes the diagnostic if and only
\* if one of the instances is not in the idle list when it runs
C17_DiagnosticIffActive ==
  [][(mpc = "idle" /\ mpc' \in {"~Expression", "~Expression: GC waiting"})
       => (mpc' = "~Expression: GC waiting"
             <=> \E i \in Instances : i \notin IdleSet)]_vars

\* C17: the Expression was destroyed while a caller of the C API held an
\* instance, and the diagnostic was written
C17_Witness ==
  /\ mpc = "~Expression: GC waiting"
  /\ \E t \in Threads : cpc[t] = "run"

\* The exceptions of the call setup
SetupErrors == {"TypeError: threads", "TypeError: arguments", "TypeError: callback"}

\* C18, as stated: a call that fails its setup checks has no effect on the
\* scheduler, whether it comes from JS or through the C API: no instance is
\* acquired or held by it, no joblet is queued, the active count and the idle
\* list are unchanged
C18_NoEffect ==
  [][/\ (mpc = JS /\ mpc' \in SetupErrors)
          => UNCHANGED <<poolVars, global_work_queue, workerVars, jobletVars,
                         callerVars>>
     /\ \A t \in Threads :
          (cpc[t] # "exprtk_invalid_argument" /\ cpc'[t] = "exprtk_invalid_argument")
            => /\ cinstance[t] = nullptr
               /\ UNCHANGED <<currentActive, instancesIdle, work_queue,
                              global_work_queue, workerVars, jobletVars>>]_vars

\* C18: a JS call that fails its setup checks changes nothing in the
\* scheduler; a C API call that fails them does so holding a guarded
\* instance, puts it back at the front of the idle list before it returns
\* and queues no joblet
C18_JsNoEffect ==
  [][/\ (mpc = JS /\ mpc' \in SetupErrors)
          => UNCHANGED <<poolVars, global_work_queue, workerVars, jobletVars,
                         callerVars>>
     /\ \A t \in Threads \ {0} :
          /\ (cpc[t] # "notify: failed" /\ cpc'[t] = "notify: failed")
                => /\ cpc[t] = "run"
                   /\ cinstance[t] # nullptr
                   /\ currentActive' = currentActive - 1
                   /\ instancesIdle' = <<cinstance[t]>> \o instancesIdle
                   /\ UNCHANGED <<work_queue, global_work_queue, workerVars,
                                  jobletVars>>
          /\ (cpc[t] # "exprtk_invalid_argument" /\ cpc'[t] = "exprtk_invalid_argument")
                => /\ cpc[t] = "notify: failed"
                   /\ UNCHANGED <<poolVars, global_work_queue, workerVars,
                                  jobletVars>>]_vars

\* C18 witness: an asynchronous call was refused for its callback while a
\* joblet of an earlier call was waiting in the global queue
C18_Witness ==
  /\ mpc = "TypeError: callback"
  /\ global_work_queue # <<>>

\* The number of entries of the global queue that are joblet j
InGlobalQueue(j) ==
  Cardinality({k \in 1..Len(global_work_queue) : global_work_queue[k] = j})

\* C19: a joblet is put on the global queue at most once, by Worker::Queue or
\* by the hand-off of OnExecute, and is popped from it at most once, so that
\* its unit of work is started at most once: it is in the queue exactly while
\* it has been put there and not popped, and it runs only after its pop
C19_OnceInOnceOut ==
  \A j \in JobletIds :
    /\ Len(placed[j]) <= 1
    /\ popped[j] <= Len(placed[j])
    /\ InGlobalQueue(j) = Len(placed[j]) - popped[j]
    /\ (j \in Executing \/ jpc[j] = "done") <=> popped[j] = 1
    /\ jpc[j] = "global" <=> InGlobalQueue(j) = 1

\* C19 witness: a joblet that went through the local queue and was handed
\* over by OnExecute has been popped by a pool thread and has run
C19_Witness ==
  \E j \in JobletIds :
    /\ placed[j] = <<"OnExecute">>
    /\ popped[j] = 1
    /\ jpc[j] = "done"

\* C20, as stated: no joblet is discarded, also not at shutdown: when
\* shutdown has been signalled and the pool threads have finished what they
\* were executing, no joblet is left in the global queue
C20_NoneDiscarded ==
  (mpc = "exit" /\ Executing = {}) => global_work_queue = <<>>

\* C20: a joblet leaves the global queue only when a pool thread pops it to
\* execute it, which happens before shutdown is signalled; a joblet that is
\* executing is never cancelled, it only advances in OnExecute; and a joblet
\* in the global queue is eventually popped unless shutdown is signalled first
C20_RunsUnlessShutdown ==
  /\ [][\A j \in JobletIds :
          (jpc[j] = "global" /\ jpc'[j] # "global")
            => (jpc'[j] = "exec" /\ mpc # "exit")]_vars
  /\ [][\A j \in JobletIds :
          j \in Executing => jpc'[j] \in {"exec", "ran", "hand", "rel", "notify",
                                          "count", "finish", "done"}]_vars
  /\ \A j \in JobletIds :
       (jpc[j] = "global") ~> (jpc[j] = "exec" \/ mpc = "exit")

\* C20 witness: shutdown was signalled while a joblet was executing and
\* another was still in the global queue
C20_Witness ==
  /\ mpc = "exit"
  /\ Executing # {}
  /\ global_work_queue # <<>>

----------------------------------------------------------------------------
\* C26: getIdleInstance returns an instance exactly when the idle list is not
\* empty and currentActive < maxParallel; the instance returned is the one
\* that leaves the idle list, and currentActive grows by one; when nullptr is
\* returned the idle list, currentActive and maxActive are unchanged.
C26_AcquireNonblocking ==
  [][(mpc = "Queue" /\ mpc' # mpc) =>
       /\ (mpc' = "Queue_global") <=>
            (instancesIdle # <<>> /\ currentActive < maxParallel)
       /\ mpc' # "Queue_global" => mpc' = "Queue_local"
       /\ mpc' = "Queue_global" =>
            /\ queue_i' = Head(instancesIdle)
            /\ instancesIdle' = Tail(instancesIdle)
            /\ \A p \in 1..Len(instancesIdle') : instancesIdle'[p] # queue_i'
            /\ currentActive' = currentActive + 1
       /\ mpc' = "Queue_local" =>
            UNCHANGED <<instancesIdle, currentActive, maxActive, queue_i>>]_vars

\* A unit was refused an instance at the ceiling although the idle list is not
\* empty, after an earlier job of the Expression was given one
C26_Witness ==
  /\ mpc = "Queue_local"
  /\ instancesIdle # <<>>
  /\ currentActive = maxParallel
  /\ maxParallel >= 1
  /\ \E j \in JobletIds : j[1] # mjob /\ placed[j] = <<"Queue">>

----------------------------------------------------------------------------
\* The joblets that hold an instance on their way through the queues and
\* through OnExecute
Bound == {j \in JobletIds : jpc[j] \in {"global", "exec", "ran", "hand", "rel"}}

\* The instances of the idle list
InIdle(idle) == {idle[p] : p \in 1..Len(idle)}

\* C28: when a joblet completes and the local queue is not empty, the head of
\* the local queue receives exactly the instance of the completing joblet and
\* is pushed to the global queue, currentActive is unchanged and the instance
\* is never in the idle list; when the local queue is empty the instance is
\* put back on the idle list, currentActive decreases by one and one blocked
\* waiter is woken.
C28_CompletionFrame ==
  /\ [](\A j \in Bound : instance[j] \notin InIdle(instancesIdle))
  /\ [][\A j \in JobletIds :
          /\ jpc[j] = "ran" /\ jpc'[j] # "ran" =>
               /\ jpc'[j] = "hand" <=> work_queue # <<>>
               /\ jpc'[j] = "rel" <=> work_queue = <<>>
               /\ jpc'[j] = "hand" =>
                    /\ next'[j] = Head(work_queue)
                    /\ work_queue' = Tail(work_queue)
               /\ UNCHANGED <<instancesIdle, currentActive, instance>>
          /\ jpc[j] = "hand" /\ jpc'[j] # "hand" =>
               /\ instance'[next[j]] = instance[j]
               /\ global_work_queue' = Append(global_work_queue, next[j])
               /\ UNCHANGED <<instancesIdle, currentActive>>
          /\ jpc[j] = "rel" /\ jpc'[j] # "rel" =>
               /\ jpc'[j] = "notify"
               /\ instancesIdle' = <<instance[j]>> \o instancesIdle
               /\ currentActive' = currentActive - 1
               /\ global_work_queue' = global_work_queue
          /\ jpc[j] = "notify" /\ jpc'[j] # "notify" =>
               /\ UNCHANGED <<instancesIdle, currentActive, global_work_queue>>
               /\ waiting # {} =>
                    \E u \in waiting :
                      /\ cpc'[u] = "wait"
                      /\ \A v \in Threads \ {u} : cpc'[v] = cpc[v]]_vars

\* A unit that waited on the local queue has been handed an instance by a
\* completing joblet, which is about to count itself, and another joblet has
\* given its instance back
C28_Witness ==
  \E j, k \in JobletIds :
    /\ jpc[j] = "global"
    /\ placed[j] = <<"OnExecute">>
    /\ instance[j] # nullptr
    /\ jpc[k] = "count"
    /\ instancesIdle # <<>>

----------------------------------------------------------------------------
\* C22: the AsyncWorker of an asynchronous call (with its persistent
\* references and its threadsafe function) is deleted at most once, by CallJS
\* on the control thread after the callback of that job has been called with
\* the result or the error, and never while a joblet of the job is queued or
\* running; no call of CallJS is pending for a deleted AsyncWorker.
C22_ReleasedAfterCallback ==
  /\ [](\A w \in callGate : kind[w] = "async")
  /\ [](self # 0 => kind[self] = "async" /\ self \notin callGate)
  /\ [](mpc = "callback" => self # 0)
  /\ [][\A w \in Jobs :
          kind[w] = "async" /\ kind'[w] # "async" =>
            /\ kind'[w] = "none"
            /\ mpc = "callback"
            /\ self = w
            /\ delivered = Outcome(err[w])
            /\ finished[w] = 1
            /\ w \notin callGate'
            /\ \A j \in JobletsOf(w) : jpc[j] = "done"]_vars

\* The callback of an asynchronous job of two units has been called and the
\* AsyncWorker is about to be deleted
C22_Witness ==
  /\ mpc = "callback"
  /\ kind[self] = "async"
  /\ size[self] = 2
  /\ delivered # "none"
  /\ \A j \in JobletsOf(self) : jpc[j] = "done"

----------------------------------------------------------------------------
\* C27: Worker::Queue never waits: for each unit, in the order of the unit
\* indices, it either pushes the unit with the instance it acquired to the
\* end of the global queue or appends the unit to the end of the local queue
\* of the Expression; the local queue loses units at its head only, and the
\* unit taken is the one a completing joblet serves next, whatever job it is
\* of.
C27_SubmitFifo ==
  /\ [](/\ (mpc = "Queue" /\ asyncLock = {}) => ENABLED getIdleInstance
        /\ mpc = "Queue_global" => ENABLED Queue_global
        /\ (mpc = "Queue_local" /\ asyncLock = {}) => ENABLED enqueue)
  /\ [][(mpc \in {"Queue", "Queue_global", "Queue_local"}
          /\ <<mpc, mk>>' # <<mpc, mk>>) =>
          /\ mpc = "Queue" =>
               /\ mpc' \in {"Queue_global", "Queue_local"}
               /\ mpc' = "Queue_global" <=> queue_i' # nullptr
               /\ UNCHANGED <<mjob, mk, work_queue, global_work_queue>>
          /\ mpc = "Queue_global" =>
               /\ global_work_queue' =
                    Append(global_work_queue, <<mjob, mk>>)
               /\ instance'[<<mjob, mk>>] = queue_i
               /\ UNCHANGED work_queue
          /\ mpc = "Queue_local" =>
               /\ work_queue' = Append(work_queue, <<mjob, mk>>)
               /\ UNCHANGED global_work_queue
          /\ mpc # "Queue" =>
               \/ mpc' = "Queue" /\ mjob' = mjob /\ mk' = mk + 1
                    /\ mk + 1 < size[mjob]
               \/ mpc' \in {"idle", "callback", "semlock"}
                    /\ mk + 1 = size[mjob]]_vars
  /\ [][work_queue' # work_queue =>
          \/ mpc = "Queue_local" /\ work_queue' = Append(work_queue, <<mjob, mk>>)
          \/ /\ work_queue # <<>>
             /\ work_queue' = Tail(work_queue)
             /\ \E j \in JobletIds :
                  /\ jpc[j] = "ran"
                  /\ jpc'[j] = "hand"
                  /\ next'[j] = Head(work_queue)]_vars

\* Units of two jobs waited on the local queue; the one appended first has
\* been taken by a completing joblet and the other is still waiting
C27_Witness ==
  \E j \in JobletIds :
    /\ jpc[j] = "hand"
    /\ work_queue # <<>>
    /\ next[j][1] # Head(work_queue)[1]
    /\ next[j][1] = 1

----------------------------------------------------------------------------
\* C23: maxActive never decreases, never exceeds the number of instances,
\* and from the first acquisition on it equals the highest value that
\* currentActive has had (instances that stay active through a hand-off
\* included).
C23_HighWaterMark ==
  /\ [][maxActive' >= maxActive]_vars
  /\ [](maxActive <= ExpressionMaxParallel)
  /\ [](peakActive >= 1 => maxActive = peakActive)

\* Both instances have been active together, and at a later time, with one
\* instance active again, maxActive is still 2
C23_Witness ==
  /\ peakActive = 2
  /\ maxActive = 2
  /\ currentActive = 1
  /\ \E j \in JobletIds : placed[j] = <<"OnExecute">>

----------------------------------------------------------------------------
\* C24: every Worker that Job::run constructs and queues has at most
\* maxParallel joblets, maxParallel being read at the time of the call.
C24_JobletsWithinCeiling ==
  [][\A w \in Jobs :
       kind[w] = "none" /\ kind'[w] \in {"async", "sync"} =>
         size'[w] <= maxParallel]_vars

----------------------------------------------------------------------------
\* C21: once threadsDestructor has set theEnd and called notify_all, the pool
\* threads all return and the joins complete: it never happens that the main
\* thread waits in join while every pool thread that has not returned is
\* blocked in global_condition.wait, with nobody left to notify it.
C21_NoWorkerLeftWaiting ==
  ~(/\ dpc = "join"
    /\ blockedThreads # {}
    /\ \A t \in PoolThreads : wpc[t] \in {"wait", "returned"})

----------------------------------------------------------------------------
\* C30: for every shape, every dense stride vector of the shape and every
\* linear offset below the element count, GetStridedIndex yields an index
\* with index[d] < shape[d] on every axis (also with negative strides and
\* with axes of extent 1 that have equal strides), different offsets yield
\* different indices, and with row-major strides GetLinearOffset returns the
\* offset.
C30_IndexInBounds ==
  gpc \in {"GetLinearOffset", "returned"} =>
    /\ \A d \in 1..gdims : gindex[d] >= 0 /\ gindex[d] < gshape[d]
    /\ \A l \in 0..(StridedLength(gshape, gdims) - 1) :
         l # goffset =>
           GetStridedIndex_any(l, [d \in 1..gdims |-> 0], gdims, gshape, gstride)
             # gindex
    /\ gpc = "returned"
         /\ gstride = [a \in 1..gdims |-> rowMajorOf(gshape, gdims, a)]
         => glinear = goffset

----------------------------------------------------------------------------
\* The name is one of the scalars declared by the Expression
DeclaredScalar(name) == \E i \in 1..nvars : variableNames[i] = name

\* C25: a call of the C API map or reduce returns exprtk_ok and writes the
\* result when the iterator name (and, for reduce, the accumulator name) is
\* a declared scalar of the Expression; when the name is not a declared
\* scalar it returns exprtk_invalid_argument and writes nothing to the
\* result.
C25_StatusByName ==
  status # "none" =>
    IF DeclaredScalar(iterator_name)
       /\ (capi = "reduce" => DeclaredScalar(accumulator))
    THEN status = "exprtk_ok" /\ written >= 1
    ELSE status = "exprtk_invalid_argument" /\ written = 0

----------------------------------------------------------------------------
\* C29: with a finite load, units that terminate and maxParallel >= 1, a
\* thread that waits in waitIdleInstance is eventually given an instance,
\* also when instances go to joblets of the local queue by hand-off, when
\* getIdleInstance takes them first and when several threads wait.
C29_WaiterIsGranted ==
  \A t \in Threads : (cpc[t] \in {"wait", "blocked"}) ~> (cpc[t] = "run")

\* A joblet of the local queue was handed an instance while threads were
\* waiting; one of two waiting threads has been given an instance and the
\* other is still blocked
C29_Witness ==
  /\ \E j \in JobletIds : placed[j] = <<"OnExecute">>
  /\ \E t, u \in Threads : cpc[t] = "run" /\ cpc[u] = "blocked"

----------------------------------------------------------------------------
\* C36: the concurrency ceiling maxParallel of the Expression is at least 1
\* in every reachable state: no SetMaxParallel that is accepted brings it
\* to 0.
C36_CeilingAtLeastOne == maxParallel >= 1

----------------------------------------------------------------------------
\* C38: a synchronous call that has acquired one instance with
\* waitIdleInstance (Job::run with one joblet on the control thread, a C API
\* function on a foreign thread) releases it on every return, also when the
\* unit of work fails and when the call returns exprtk_invalid_argument:
\* the destructor of the guard, which runs before the return, puts the
\* instance on the idle list and takes one off currentActive, a thread that
\* is not inside a call has no guard, and currentActive counts the instances
\* that are bound to a joblet, held by a thread inside a call that has not
\* released its guard, or held by Worker::Queue for the joblet it is about
\* to push.
C38_GuardReleases ==
  /\ [][\A t \in Threads :
          /\ cpc[t] = "run" /\ cpc'[t] # "run" =>
               /\ cpc'[t] \in {"notify", "notify: failed"}
               /\ currentActive' = currentActive - 1
               /\ cinstance[t] \in InIdle(instancesIdle')
          /\ cpc[t] \in {"notify", "notify: failed"} /\ cpc'[t] # cpc[t] =>
               /\ cpc'[t] \in {"idle", "exprtk_invalid_argument"}
               /\ cinstance'[t] = nullptr
               /\ UNCHANGED <<instancesIdle, currentActive>>]_vars
  /\ [](\A t \in Threads :
          cpc[t] \notin {"run", "notify", "notify: failed"} => cinstance[t] = nullptr)
  /\ [](currentActive =
          Cardinality({j \in JobletIds : instance[j] # nullptr})
            + Cardinality({t \in Threads : cpc[t] = "run"})
            + (IF queue_i # nullptr THEN 1 ELSE 0))

\* A C API call has returned exprtk_invalid_argument and a synchronous call
\* of one joblet has raised the error of its unit; no instance is active and
\* both instances are idle
C38_Witness ==
  /\ cpc[1] = "exprtk_invalid_argument"
  /\ mpc = "Error"
  /\ mjob = 0
  /\ currentActive = 0
  /\ Len(instancesIdle) = ExpressionMaxParallel

----------------------------------------------------------------------------
\* C39: when a synchronous call of several joblets has returned to JS, with
\* its result or with the error of a unit raised, the SyncWorker of the call
\* has been deleted: no SyncWorker is left in memory.
C39_SyncWorkerFreed ==
  mpc \in {"idle", "return", "Error"} =>
    \A w \in Jobs : kind[w] \notin {"sync", "leaked"}

----------------------------------------------------------------------------
\* C34: pool conservation.  In every state of the life of the Expression,
\* from the end of the constructor to the destructor (which empties the idle
\* list and after which the object is freed: the states in which the
\* destructor has run, the exit of the process and the SIGSEGV of a thread
\* that follow it included, are outside the claim), the length of the idle
\* list plus currentActive is the number of instances, no instance is twice
\* in the idle list, and no instance of the idle list is bound to a joblet or
\* held by a synchronous caller.  The exit of the process with the
\* Expression alive is a state of its life.
C34_PoolConservation ==
  mpc \notin {"~Expression", "~Expression: GC waiting", "exit after ~Expression",
              "SIGSEGV"} =>
    /\ Len(instancesIdle) + currentActive = ExpressionMaxParallel
    /\ Cardinality(IdleSet) = Len(instancesIdle)
    /\ \A i \in IdleSet : Holders(i) = {}

\* One instance is on the idle list while the other one, kept active, is
\* handed by a finished joblet to a joblet of the local queue
C34_Witness ==
  /\ instancesIdle = <<2>>
  /\ currentActive = 1
  /\ \E j \in JobletIds : jpc[j] = "hand" /\ instance[j] = 1

----------------------------------------------------------------------------
\* C33 (as stated): an instance that has never been acquired is never
\* compiled: as long as no acquisition has been made, no instance of the
\* Expression is compiled.
C33_CompiledOnlyByAcquisition ==
  peakActive = 0 => \A i \in Instances : ~isInit[i]

\* C33 (amended): the first instance is compiled by the constructor.  Each
\* other instance is compiled at most once (maxActive, incremented by each
\* compilation, is the number of compiled instances), in the step that
\* acquires it for the first time, and only when every compiled instance is
\* active; it is not compiled before an acquisition has been made, and every
\* instance that is bound to a joblet or held by a caller is compiled.
C33_LazyCompile ==
  /\ [](isInit[1])
  /\ [][\A i \in Instances :
          isInit'[i] # isInit[i] =>
            /\ isInit'[i]
            /\ instancesIdle # <<>> /\ i = Head(instancesIdle)
            /\ instancesIdle' = Tail(instancesIdle)
            /\ currentActive' = currentActive + 1
            /\ maxActive' = maxActive + 1
            /\ \A k \in Instances : isInit[k] => k \notin IdleSet
            /\ \A k \in Instances \ {i} : isInit'[k] = isInit[k]]_vars
  /\ [](maxActive = Cardinality({i \in Instances : isInit[i]}))
  /\ [](peakActive = 0 => \A i \in Instances \ {1} : ~isInit[i])
  /\ [](\A j \in JobletIds : instance[j] # nullptr => isInit[instance[j]])
  /\ [](\A t \in Threads : cinstance[t] # nullptr => isInit[cinstance[t]])
  /\ [](queue_i # nullptr => isInit[queue_i])

\* The second instance was compiled when a joblet acquired it with the first
\* instance held by a synchronous caller, and a unit of work runs on it
C33_Witness ==
  /\ isInit[2]
  /\ \E t \in Threads : cpc[t] = "run" /\ cinstance[t] = 1
  /\ \E j \in JobletIds : instance[j] = 2 /\ jpc[j] = "exec"

----------------------------------------------------------------------------
\* C35: whenever the local queue of the Expression is not empty (and the
\* ceiling is at least 1), some joblet of the Expression that holds an
\* instance is in the global queue, is running its unit of work or is about
\* to call dequeue() or to hand its instance over (or Worker::Queue is about
\* to push a joblet with the instance it acquired), so that a completion
\* will take the head of the local queue.
C35_PendingHasDrainer ==
  (maxParallel >= 1 /\ work_queue # <<>>) =>
    \/ queue_i # nullptr
    \/ \E j \in JobletIds :
         /\ instance[j] # nullptr
         /\ jpc[j] \in {"global", "exec", "ran", "hand"}

----------------------------------------------------------------------------
\* C37: every Worker that Job::run has constructed has at least one joblet,
\* and a call of map or cwise with a thread count of 0, synchronous or
\* asynchronous, is rejected by the call setup: it ends with the TypeError
\* of one of the checks.
C37_JobHasJoblet ==
  /\ [](\A w \in Jobs : kind[w] \in {"async", "sync"} => size[w] >= 1)
  /\ [][\A async, args, cb \in BOOLEAN :
          map_zero(async, args, cb) =>
            mpc' \in {"TypeError: threads", "TypeError: arguments",
                      "TypeError: callback"}]_vars

----------------------------------------------------------------------------
\* C32: a Worker (with its joblet records, its result slot and its error
\* slot) is freed only when every pool thread that ran one of its joblets
\* has made its last access to it: at the step that frees the Worker each of
\* its joblets is past jobletsReady.fetch_add, the one that called the
\* finisher is past OnFinish, and no joblet of another job is handing its
\* instance to a joblet of the Worker.  (size is read before the fetch_add,
\* async.h:145-147: after it a worker that is not the last one reads locals
\* only.)
C32_FreedAfterLastAccess ==
  [][\A w \in Jobs :
       kind[w] # "none" /\ kind'[w] = "none" =>
         /\ \A j \in JobletsOf(w) : jpc[j] = "done"
         /\ jobletsReady[w] = size[w]
         /\ finished[w] = 1
         /\ \A g \in JobletIds : jpc[g] = "hand" => next[g][1] # w]_vars

\* CallJS is about to delete the AsyncWorker of a job of two joblets, after
\* the pool thread that was not the last one and the one that called OnFinish
\* have both returned from OnExecute
C32_Witness ==
  /\ mpc = "callback"
  /\ self # 0
  /\ size[self] = 2
  /\ finished[self] = 1
  /\ \A j \in JobletsOf(self) : jpc[j] = "done"

----------------------------------------------------------------------------
\* The number of an index in the row-major order of the shape
RowMajorNumber(idx) ==
  DotProduct(idx, [d \in 1..dims |-> rowMajorStride(d)], dims)

\* C31: IncrementStridedIndex moves an index inside the shape to its
\* successor in row-major order (the last axis runs fastest, with a carry
\* into the axes before it), the last index to 0, ..., 0, and leaves the
\* pointer at start + the sum over the axes of index[d] * stride[d] *
\* elementSize for the new index, as an address of SizeBits bits.
C31_OdometerSuccessor ==
  [][ndpc = "IncrementStridedIndex" =>
       /\ \A d \in 1..dims : index'[d] >= 0 /\ index'[d] < shape[d]
       /\ RowMajorNumber(index') =
            (RowMajorNumber(index) + 1) % StridedLength(shape, dims)
       /\ RowMajorNumber(index) = StridedLength(shape, dims) - 1 =>
            index' = [d \in 1..dims |-> 0]
       /\ data_ptr' =
            (start + DotProduct(index', stride, dims) * elementSize)
              % (2 ^ SizeBits)]_vars

\* After a carry from the last axis the index is 1, 0 in an array of shape
\* 2, 3 with a negative stride on the first axis, and the pointer is two
\* elements of 8 bytes below start
C31_Witness ==
  /\ ndpc = "IncrementStridedIndex"
  /\ shape = <<2, 3>>
  /\ stride = <<0 - 2, 1>>
  /\ elementSize = 8
  /\ start = 2 ^ (SizeBits - 1)
  /\ index = <<1, 0>>
  /\ data_ptr = start - 16

====
